---- MODULE Spec2Model ----
(***************************************************************************)
(* Model of GCSConnector.translate_xliff_with_anthropic and                *)
(* GCSConnector.translate_with_anthropic (src/adobe_gcs_connector.py).     *)
(*                                                                         *)
(* Text is a sequence of one-character strings, so that containment,       *)
(* splitting, trimming, case conversion and the marker regular expression  *)
(* are computed character by character as Python computes them.  A         *)
(* document is a sequence of markup tokens (start tag, end tag, character  *)
(* data); ET.fromstring is a stack parser over that sequence and           *)
(* ET.tostring writes a tree back to tokens.                               *)
(*                                                                         *)
(* Spec is one call of translate_xliff_with_anthropic, step by step.       *)
(* SessionSpec is calls one after the other on a connector whose fields    *)
(* have been set.  ConnectorSpec is run, poll_for_events and the two event *)
(* handlers, with the translation of a document as one step.               *)
(***************************************************************************)
EXTENDS Integers, Sequences, FiniteSets, TLC

(***************************************************************************)
(* Python str operations                                                   *)
(***************************************************************************)

\* pat occurs in s starting at position p (1-based)
StartsAt(s, pat, p) ==
    /\ p >= 1
    /\ p + Len(pat) - 1 <= Len(s)
    /\ \A k \in 1..Len(pat) : s[p + k - 1] = pat[k]

\* Python: pat in s
Contains(s, pat) == \E p \in 1..(Len(s) + 1) : StartsAt(s, pat, p)

\* Python: s.endswith(pat)
EndsWith(s, pat) == StartsAt(s, pat, Len(s) - Len(pat) + 1)

\* Python: s.find(pat, from), 1-based, 0 when absent
Find(s, pat, from) ==
    LET hits == { p \in from..(Len(s) + 1) : StartsAt(s, pat, p) }
    IN  IF hits = {} THEN 0 ELSE CHOOSE p \in hits : \A q \in hits : p <= q

RECURSIVE SplitFrom(_, _, _)
SplitFrom(s, pat, from) ==
    LET p == Find(s, pat, from)
    IN  IF p = 0
        THEN << SubSeq(s, from, Len(s)) >>
        ELSE << SubSeq(s, from, p - 1) >> \o SplitFrom(s, pat, p + Len(pat))

\* Python: s.split(pat) for a non-empty pat
Split(s, pat) == SplitFrom(s, pat, 1)

RECURSIVE Join(_, _)
\* Python: sep.join(parts)
Join(sep, parts) ==
    IF Len(parts) = 0 THEN << >>
    ELSE IF Len(parts) = 1 THEN parts[1]
    ELSE parts[1] \o sep \o Join(sep, Tail(parts))

\* Python's str.strip() and the regular expression class \s on the characters used
IsSpace(c) == c \in {" ", "\n", "\t", "\r"}

RECURSIVE LStrip(_)
LStrip(s) == IF Len(s) > 0 /\ IsSpace(s[1]) THEN LStrip(Tail(s)) ELSE s

RECURSIVE RStrip(_)
RStrip(s) ==
    IF Len(s) > 0 /\ IsSpace(s[Len(s)]) THEN RStrip(SubSeq(s, 1, Len(s) - 1)) ELSE s

\* Python: s.strip()
Strip(s) == RStrip(LStrip(s))

UpperLetters ==
    << "A", "B", "C", "D", "E", "F", "G", "H", "I", "J", "K", "L", "M",
       "N", "O", "P", "Q", "R", "S", "T", "U", "V", "W", "X", "Y", "Z" >>

LowerLetters ==
    << "a", "b", "c", "d", "e", "f", "g", "h", "i", "j", "k", "l", "m",
       "n", "o", "p", "q", "r", "s", "t", "u", "v", "w", "x", "y", "z" >>

IsUpper(c) == \E k \in 1..26 : UpperLetters[k] = c
IsLower(c) == \E k \in 1..26 : LowerLetters[k] = c

LowerChar(c) ==
    IF IsUpper(c) THEN LowerLetters[CHOOSE k \in 1..26 : UpperLetters[k] = c] ELSE c

UpperChar(c) ==
    IF IsLower(c) THEN UpperLetters[CHOOSE k \in 1..26 : LowerLetters[k] = c] ELSE c

RECURSIVE Lower(_)
\* Python: s.lower()
Lower(s) == IF Len(s) = 0 THEN << >> ELSE << LowerChar(s[1]) >> \o Lower(Tail(s))

RECURSIVE Upper(_)
\* Python: s.upper()
Upper(s) == IF Len(s) = 0 THEN << >> ELSE << UpperChar(s[1]) >> \o Upper(Tail(s))

Digits == << "0", "1", "2", "3", "4", "5", "6", "7", "8", "9" >>

\* regular expression class \d
IsDigit(c) == \E k \in 1..10 : Digits[k] = c

\* regular expression class \w: letters, digits and the underscore
IsWord(c) == IsUpper(c) \/ IsLower(c) \/ IsDigit(c) \/ c = "_"

RECURSIVE IntToStr(_)
\* Python: f"{i}" for a non-negative integer
IntToStr(n) ==
    IF n < 10 THEN << Digits[n + 1] >>
    ELSE IntToStr(n \div 10) \o << Digits[(n % 10) + 1] >>

(***************************************************************************)
(* re.sub(r'\[ITEM-\d+\]\[\w+\]\s*', '', part)                             *)
(***************************************************************************)

\* the first position from q on that does not hold a digit
DigitsEnd(s, q) ==
    CHOOSE e \in q..(Len(s) + 1) :
        /\ \A k \in q..(e - 1) : IsDigit(s[k])
        /\ (e = Len(s) + 1 \/ ~IsDigit(s[e]))

\* the first position from q on that does not hold a word character
WordEnd(s, q) ==
    CHOOSE e \in q..(Len(s) + 1) :
        /\ \A k \in q..(e - 1) : IsWord(s[k])
        /\ (e = Len(s) + 1 \/ ~IsWord(s[e]))

\* the first position from q on that does not hold white space
SpaceEnd(s, q) ==
    CHOOSE e \in q..(Len(s) + 1) :
        /\ \A k \in q..(e - 1) : IsSpace(s[k])
        /\ (e = Len(s) + 1 \/ ~IsSpace(s[e]))

ItemOpen == << "[", "I", "T", "E", "M", "-" >>

\* The position after a match of \[ITEM-\d+\]\[\w+\]\s* that starts at p, or 0.
\* Neither \d nor \w matches "]", so the greedy runs are the only candidates.
MarkerEnd(s, p) ==
    IF ~StartsAt(s, ItemOpen, p) THEN 0
    ELSE LET d == DigitsEnd(s, p + 6)
         IN  IF d = p + 6 \/ ~StartsAt(s, << "]", "[" >>, d) THEN 0
             ELSE LET w == WordEnd(s, d + 2)
                  IN  IF w = d + 2 \/ ~StartsAt(s, << "]" >>, w) THEN 0
                      ELSE SpaceEnd(s, w + 1)

RECURSIVE RemoveMarkersFrom(_, _)
RemoveMarkersFrom(s, p) ==
    IF p > Len(s) THEN << >>
    ELSE LET e == MarkerEnd(s, p)
         IN  IF e # 0 THEN RemoveMarkersFrom(s, e)
             ELSE << s[p] >> \o RemoveMarkersFrom(s, p + 1)

\* every non-overlapping match, leftmost first, replaced by the empty string
RemoveMarkers(s) == RemoveMarkersFrom(s, 1)

(***************************************************************************)
(* String literals of the source                                           *)
(***************************************************************************)

TransUnitSuffix == << "t", "r", "a", "n", "s", "-", "u", "n", "i", "t" >>
SourceSuffix == << "s", "o", "u", "r", "c", "e" >>
TargetSuffix == << "t", "a", "r", "g", "e", "t" >>
TypeTransUnit == << "t", "r", "a", "n", "s", "-", "u", "n", "i", "t" >>
TypeDirect == << "d", "i", "r", "e", "c", "t" >>
Yes == << "y", "e", "s" >>

\* tag keywords of the heading pass
HeaderKeywords ==
    { << "t", "i", "t", "l", "e" >>, << "h", "e", "a", "d", "e", "r" >>,
      << "h", "1" >>, << "h", "2" >>, << "h", "3" >>, << "h", "4" >>, << "h", "5" >>, << "h", "6" >> }

\* resname keywords
ResnameKeywords == { << "t", "i", "t", "l", "e" >>, << "h", "e", "a", "d", "e", "r" >>, << "h", "e", "a", "d", "i", "n", "g" >> }

XmlLang == "{http://www.w3.org/XML/1998/namespace}lang"

\* the separator joined between the items of the request
ItemSeparator == << "\n", "-", "-", "-", "I", "T", "E", "M", "-", "-", "-", "\n" >>

\* the alternatives tried, in this order, when the separator is absent
possible_patterns ==
    << << "\n", "-", "-", "-", "I", "T", "E", "M", "-", "-", "-", "\n" >>,
       << "\n", "-", " ", "-", " ", "-", "I", "T", "E", "M", "-", " ", "-", " ", "-", "\n" >>,
       << "\n", "-", "-", "I", "T", "E", "M", "-", "-", "\n" >>,
       << "\n", "-", "-", "-", "\n" >>,
       << "\n", "-", " ", "-", " ", "-", "\n" >>,
       << "\n", "-", "-", "\n" >>,
       << "\n", "\n" >>,
       << "\n" >> >>

(***************************************************************************)
(* xml.etree.ElementTree: elements, parsing, serialisation                 *)
(*                                                                         *)
(* A tree is a sequence of elements; element 1 is the root, an element is  *)
(* its index (its identity), children holds the indices of the children in *)
(* order.  text and tail are << >> where ElementTree holds None or "".     *)
(* attrib is a set of << name, value >> pairs, one per name.               *)
(***************************************************************************)

StartTag(tag, attrib) == [t |-> "start", tag |-> tag, attrib |-> attrib, data |-> << >>]
EndTag(tag) == [t |-> "end", tag |-> tag, attrib |-> {}, data |-> << >>]
CharData(s) == [t |-> "data", tag |-> << >>, attrib |-> {}, data |-> s]

NewElement(tag, attrib) ==
    [tag |-> tag, attrib |-> attrib, text |-> << >>, tail |-> << >>, children |-> << >>]

\* Python: name in element.attrib
HasAttr(e, name) == \E a \in e.attrib : a[1] = name

\* Python: element.get(name, default)
GetAttr(e, name, default) ==
    IF HasAttr(e, name) THEN (CHOOSE a \in e.attrib : a[1] = name)[2] ELSE default

\* Python: element.attrib[name] = value
SetAttr(attrib, name, value) ==
    { a \in attrib : a[1] # name } \cup { << name, value >> }

ParseError == [ok |-> FALSE, elems |-> << >>]

RECURSIVE ParseFrom(_, _, _, _)
\* The parser's loop: k is the next token, stack the open elements, innermost last.
ParseFrom(toks, k, elems, stack) ==
    IF k > Len(toks)
    THEN IF Len(stack) = 0 /\ Len(elems) > 0
         THEN [ok |-> TRUE, elems |-> elems]
         ELSE ParseError                                  \* no element, or unclosed
    ELSE
    LET tok == toks[k]
        top == stack[Len(stack)]
    IN  CASE tok.t = "start" ->
                IF Len(stack) = 0 /\ Len(elems) > 0
                THEN ParseError                           \* junk after the root
                ELSE LET id == Len(elems) + 1
                         linked ==
                            IF Len(stack) = 0 THEN elems
                            ELSE [elems EXCEPT ![top].children = Append(@, id)]
                     IN  ParseFrom(toks, k + 1,
                                   Append(linked, NewElement(tok.tag, tok.attrib)),
                                   Append(stack, id))
          [] tok.t = "end" ->
                IF Len(stack) = 0 \/ elems[top].tag # tok.tag
                THEN ParseError                           \* mismatched tag
                ELSE ParseFrom(toks, k + 1, elems, SubSeq(stack, 1, Len(stack) - 1))
          [] OTHER ->
                IF Len(stack) = 0
                THEN IF Strip(tok.data) = << >>
                     THEN ParseFrom(toks, k + 1, elems, stack)
                     ELSE ParseError                      \* text outside the root
                ELSE LET kids == elems[top].children
                     IN  IF Len(kids) = 0
                         THEN ParseFrom(toks, k + 1,
                                        [elems EXCEPT ![top].text = @ \o tok.data], stack)
                         ELSE ParseFrom(toks, k + 1,
                                        [elems EXCEPT ![kids[Len(kids)]].tail = @ \o tok.data],
                                        stack)

\* ET.fromstring: the tree, or a ParseError
fromstring(content) == ParseFrom(content, 1, << >>, << >>)

DataTokens(s) == IF Len(s) = 0 THEN << >> ELSE << CharData(s) >>

RECURSIVE SerializeElement(_, _)
RECURSIVE SerializeChildren(_, _)
SerializeElement(elems, id) ==
    << StartTag(elems[id].tag, elems[id].attrib) >>
        \o DataTokens(elems[id].text)
        \o SerializeChildren(elems, elems[id].children)
        \o << EndTag(elems[id].tag) >>
        \o DataTokens(elems[id].tail)

SerializeChildren(elems, kids) ==
    IF Len(kids) = 0 THEN << >>
    ELSE SerializeElement(elems, kids[1]) \o SerializeChildren(elems, Tail(kids))

\* ET.tostring(root, encoding='unicode', method='xml')
tostring(elems) == SerializeElement(elems, 1)

RECURSIVE Descendants(_, _)
RECURSIVE DescendantsOfAll(_, _)
\* the elements below id, in document order
Descendants(elems, id) == DescendantsOfAll(elems, elems[id].children)

DescendantsOfAll(elems, kids) ==
    IF Len(kids) = 0 THEN << >>
    ELSE << kids[1] >> \o Descendants(elems, kids[1])
             \o DescendantsOfAll(elems, Tail(kids))

\* root.findall('.//*'): every element below the root, the root itself excluded
FindAll(elems) == Descendants(elems, 1)

RECURSIVE IterText(_, _)
RECURSIVE IterTextOfAll(_, _)
\* ''.join(element.itertext()): the element's text, then for each child its
\* own itertext followed by its tail
IterText(elems, id) == elems[id].text \o IterTextOfAll(elems, elems[id].children)

IterTextOfAll(elems, kids) ==
    IF Len(kids) = 0 THEN << >>
    ELSE IterText(elems, kids[1]) \o elems[kids[1]].tail
             \o IterTextOfAll(elems, Tail(kids))

(***************************************************************************)
(* translate_xliff_with_anthropic: discovery and extraction                *)
(***************************************************************************)

None == 0

\* pass 1: elements whose tag ends with 'trans-unit'
trans_units(elems) ==
    SelectSeq(FindAll(elems), LAMBDA e : EndsWith(elems[e].tag, TransUnitSuffix))

\* pass 2: elements whose lower-cased tag contains a heading keyword
header_elements(elems) ==
    SelectSeq(FindAll(elems),
              LAMBDA e : \E x \in HeaderKeywords : Contains(Lower(elems[e].tag), x))

\* pass 3: elements with translatable="yes"
translatable_attr_elements(elems) ==
    SelectSeq(FindAll(elems),
              LAMBDA e : /\ HasAttr(elems[e], "translatable")
                         /\ GetAttr(elems[e], "translatable", << >>) = Yes)

\* pass 4: elements whose lower-cased resname contains a keyword
resname_elements(elems) ==
    SelectSeq(FindAll(elems),
              LAMBDA e : /\ HasAttr(elems[e], "resname")
                         /\ \E x \in ResnameKeywords :
                                Contains(Lower(GetAttr(elems[e], "resname", << >>)), x))

RECURSIVE DedupKeepLast(_, _)
\* a de-duplication that keeps an element at its last match
DedupKeepLast(found, acc) ==
    IF Len(found) = 0 THEN acc
    ELSE DedupKeepLast(Tail(found),
                       Append(SelectSeq(acc, LAMBDA x : x # found[1]), found[1]))

RECURSIVE Dedup(_, _)
\* for elem in found: if elem not in all_elements: all_elements.append(elem)
Dedup(found, acc) ==
    IF Len(found) = 0 THEN acc
    ELSE IF \E k \in 1..Len(acc) : acc[k] = found[1]
         THEN Dedup(Tail(found), acc)
         ELSE Dedup(Tail(found), Append(acc, found[1]))

Discover(elems) ==
    Dedup(trans_units(elems) \o header_elements(elems)
              \o translatable_attr_elements(elems) \o resname_elements(elems),
          << >>)

RECURSIVE ScanChildren(_, _, _)
\* for child in element: the last child ending with 'source', and the last
\* one that does not but ends with 'target'
ScanChildren(elems, kids, found) ==
    IF Len(kids) = 0 THEN found
    ELSE LET child == kids[1]
         IN  IF EndsWith(elems[child].tag, SourceSuffix)
             THEN ScanChildren(elems, Tail(kids), [found EXCEPT !.source = child])
             ELSE IF EndsWith(elems[child].tag, TargetSuffix)
                  THEN ScanChildren(elems, Tail(kids), [found EXCEPT !.target = child])
                  ELSE ScanChildren(elems, Tail(kids), found)

\* one iteration of the extraction loop: the tuple built for element number i
ExtractItem(elems, i, element) ==
    LET isUnit == EndsWith(elems[element].tag, TransUnitSuffix)
        found  == IF isUnit
                  THEN ScanChildren(elems, elems[element].children,
                                    [source |-> None, target |-> None])
                  ELSE [source |-> element, target |-> None]
        text   == IF found.source # None
                  THEN Strip(IterText(elems, found.source))
                  ELSE << >>
    IN  [i |-> i,
         element_type |-> IF isUnit THEN TypeTransUnit ELSE TypeDirect,
         element |-> element,
         source |-> found.source,
         target |-> found.target,
         text |-> text]

RECURSIVE ExtractKeepingEmpty(_, _, _)
\* an extraction that keeps the items without text
ExtractKeepingEmpty(elems, all, i) ==
    IF i >= Len(all) THEN << >>
    ELSE << ExtractItem(elems, i, all[i + 1]) >> \o ExtractKeepingEmpty(elems, all, i + 1)

RECURSIVE ExtractFrom(_, _, _)
\* for i, element in enumerate(all_elements): keep the items with text
ExtractFrom(elems, all, i) ==
    IF i >= Len(all) THEN << >>
    ELSE LET item == ExtractItem(elems, i, all[i + 1])
         IN  (IF Len(item.text) > 0 THEN << item >> ELSE << >>)
                 \o ExtractFrom(elems, all, i + 1)

Extract(elems, all) == ExtractFrom(elems, all, 0)

(***************************************************************************)
(* The request and the parsing of the response                             *)
(***************************************************************************)

\* a line numbered with the element's place in the tree
ItemLineByElement(item) ==
    ItemOpen \o IntToStr(item.element) \o << "]", "[" >> \o Upper(item.element_type)
        \o << "]", " " >> \o item.text

\* f"[ITEM-{i}][{element_type.upper()}] {text}"
ItemLine(item) ==
    ItemOpen \o IntToStr(item.i) \o << "]", "[" >> \o Upper(item.element_type)
        \o << "]", " " >> \o item.text

RECURSIVE ItemLines(_)
ItemLines(items) ==
    IF Len(items) = 0 THEN << >>
    ELSE << ItemLine(items[1]) >> \o ItemLines(Tail(items))

CombinedText(items) == Join(ItemSeparator, ItemLines(items))

RECURSIVE LastPresent(_, _, _)
\* the loop without its break: the last pattern present wins
LastPresent(text, patterns, default) ==
    IF Len(patterns) = 0 THEN default
    ELSE LastPresent(text, Tail(patterns),
                     IF Contains(text, patterns[1]) THEN patterns[1] ELSE default)

RECURSIVE FirstPresent(_, _, _)
\* for pattern in possible_patterns: if pattern in text: ...; break
FirstPresent(text, patterns, default) ==
    IF Len(patterns) = 0 THEN default
    ELSE IF Contains(text, patterns[1]) THEN patterns[1]
         ELSE FirstPresent(text, Tail(patterns), default)

SplitPattern(text) ==
    IF Contains(text, ItemSeparator) THEN ItemSeparator
    ELSE FirstPresent(text, possible_patterns, ItemSeparator)

\* part.strip() and then the marker removal
CleanPart(part) == RemoveMarkers(Strip(part))

RECURSIVE DigitsValue(_)
\* the number a run of digits writes
DigitsValue(s) ==
    IF Len(s) = 0 THEN 0
    ELSE 10 * DigitsValue(SubSeq(s, 1, Len(s) - 1))
             + (CHOOSE d \in 0..9 : Digits[d + 1] = s[Len(s)])

\* the id in the marker a part starts with, -1 when it starts with none
MarkerIdOf(part) ==
    LET s == Strip(part)
    IN  IF StartsAt(s, ItemOpen, 1) /\ DigitsEnd(s, 7) > 7
        THEN DigitsValue(SubSeq(s, 7, DigitsEnd(s, 7) - 1))
        ELSE -1

\* a cleaning that puts each part at the place its marker names, when the
\* markers of the parts name every place once
CleanPartsByMarker(parts) ==
    LET n == Len(parts)
    IN  IF \A j \in 1..n : \E k \in 1..n : MarkerIdOf(parts[k]) = j - 1
        THEN [j \in 1..n |->
                 CleanPart(parts[CHOOSE k \in 1..n : MarkerIdOf(parts[k]) = j - 1])]
        ELSE [j \in 1..n |-> CleanPart(parts[j])]

RECURSIVE CleanParts(_)
CleanParts(parts) ==
    IF Len(parts) = 0 THEN << >>
    ELSE << CleanPart(parts[1]) >> \o CleanParts(Tail(parts))

RECURSIVE PadWithEmpty(_, _)
\* padding with the placeholder only
PadWithEmpty(parts, n) ==
    IF Len(parts) >= n THEN parts ELSE PadWithEmpty(Append(parts, << >>), n)

RECURSIVE Pad(_, _)
\* while len(cleaned_parts) < n: append the last part, or "" if there is none
Pad(parts, n) ==
    IF Len(parts) >= n THEN parts
    ELSE Pad(Append(parts, IF Len(parts) > 0 THEN parts[Len(parts)] ELSE << >>), n)

\* a truncation that keeps the last n parts
TruncateFront(parts, n) ==
    IF Len(parts) > n THEN SubSeq(parts, Len(parts) - n + 1, Len(parts)) ELSE parts

\* if len(cleaned_parts) > n: cleaned_parts = cleaned_parts[:n]
Truncate(parts, n) == IF Len(parts) > n THEN SubSeq(parts, 1, n) ELSE parts

Reconcile(parts, n) == Truncate(Pad(parts, n), n)

(***************************************************************************)
(* Writing one translation back into the tree                              *)
(***************************************************************************)

\* the last position of character c in s, 0 when absent
LastIndexOf(s, c) ==
    LET hits == { p \in 1..Len(s) : s[p] = c }
    IN  IF hits = {} THEN 0 ELSE CHOOSE p \in hits : \A q \in hits : q <= p

\* source.tag.rsplit('}', 1)[0] + '}' if '}' in source.tag else ""
NamespaceOf(tag) ==
    IF Contains(tag, << "}" >>) THEN SubSeq(tag, 1, LastIndexOf(tag, "}")) ELSE << >>

\* a created target without the namespace of the source
NewTargetUnqualified(elems, item, translated_text, target_language) ==
    [tag |-> TargetSuffix,
     attrib |-> IF HasAttr(elems[item.source], XmlLang)
                THEN SetAttr({}, XmlLang, target_language)
                ELSE {},
     text |-> translated_text,
     tail |-> << >>,
     children |-> << >>]

\* the target element created for a trans-unit that has none
NewTarget(elems, item, translated_text, target_language) ==
    [tag |-> NamespaceOf(elems[item.source].tag) \o TargetSuffix,
     attrib |-> IF HasAttr(elems[item.source], XmlLang)
                THEN SetAttr({}, XmlLang, target_language)
                ELSE {},
     text |-> translated_text,
     tail |-> << >>,
     children |-> << >>]

\* a write that gives every trans-unit a new target
WriteItemAlwaysAppends(elems, item, translated_text, target_language) ==
    IF item.element_type = TypeTransUnit
    THEN Append([elems EXCEPT ![item.element].children = Append(@, Len(elems) + 1)],
                NewTarget(elems, item, translated_text, target_language))
    ELSE [elems EXCEPT ![item.element].text = translated_text]

\* the write made for an item and a text that is not empty
WriteItem(elems, item, translated_text, target_language) ==
    IF item.element_type = TypeTransUnit
    THEN IF item.target # None
         THEN [elems EXCEPT ![item.target].text = translated_text]
         ELSE Append([elems EXCEPT ![item.element].children = Append(@, Len(elems) + 1)],
                     NewTarget(elems, item, translated_text, target_language))
    ELSE IF item.element_type = TypeDirect
         THEN [elems EXCEPT ![item.element].text = translated_text]
         ELSE elems

\* an update that also stamps the language on an existing target
UpdateItemSetsLang(elems, item, part, target_language) ==
    LET translated_text == Strip(part)
        written == WriteItem(elems, item, translated_text, target_language)
    IN  IF Len(translated_text) = 0 THEN elems
        ELSE IF item.element_type = TypeTransUnit /\ item.target # None
             THEN [written EXCEPT ![item.target].attrib =
                                      SetAttr(@, XmlLang, target_language)]
             ELSE written

\* an update without the test for an empty translation
UpdateItemNoSkip(elems, item, part, target_language) ==
    WriteItem(elems, item, Strip(part), target_language)

\* the body of the update loop for one item and the part aligned with it
UpdateItem(elems, item, part, target_language) ==
    LET translated_text == Strip(part)
    IN  IF Len(translated_text) = 0 THEN elems
        ELSE WriteItem(elems, item, translated_text, target_language)

(***************************************************************************)
(* translate_with_anthropic: the HTTP exchange                             *)
(***************************************************************************)

NoReply == [transport |-> "none", status_code |-> 0, body |-> "none", text |-> << >>]

\* requests' raise_for_status raises for the 4xx and 5xx codes
RaisesForStatus(status_code) == status_code >= 400 /\ status_code < 600

\* translate_with_anthropic with a handler that falls back to the untranslated
\* text instead of re-raising
translate_with_anthropic_fallback(source_text, source_lang, target_lang, reply) ==
    IF reply.transport = "ok" /\ reply.status_code = 200 /\ reply.body = "message"
    THEN [raised |-> FALSE, result |-> reply.text]
    ELSE [raised |-> FALSE, result |-> source_text]

\* What the call gives for a reply of the service: an exception (raised, the
\* handler logs and re-raises) or response_data["content"][0]["text"].
translate_with_anthropic(source_text, source_lang, target_lang, reply) ==
    IF reply.transport # "ok" THEN [raised |-> TRUE, result |-> << >>]
    ELSE IF RaisesForStatus(reply.status_code) THEN [raised |-> TRUE, result |-> << >>]
    ELSE IF reply.body # "message" THEN [raised |-> TRUE, result |-> << >>]
    ELSE [raised |-> FALSE, result |-> reply.text]

\* a handler that returns nothing
ExceptReturnsNothing(content) == << >>

\* except Exception: ... return xliff_content
ExceptReturn(content) == content

(***************************************************************************)
(* Inputs: documents                                                       *)
(***************************************************************************)

\* the number of units below the root of a document
MaxUnits == 2

Hello == << "H", "e", "l", "l", "o" >>
World == << "W", "o", "r", "l", "d" >>
Old == << "O", "l", "d" >>
Bold == << "B", "o", "l", "d" >>
English == << "e", "n" >>
French == << "f", "r" >>
German == << "d", "e" >>
Namespace == << "{", "u", "r", "n", ":", "x", "}" >>

SourceTexts == << Hello, World >>
SourceText(k) == SourceTexts[((k - 1) % Len(SourceTexts)) + 1]

Element(tag, attrib, content) == << StartTag(tag, attrib) >> \o content \o << EndTag(tag) >>

\* the shapes a unit can have, in the order units take in a document
UnitShapes ==
    << "resname", "para", "title", "tu", "tu_ns", "tu_target", "tu_blank",
       "tu_nosource", "tu_marked_target", "tu_marked_source", "nested" >>

\* the markup of the k-th unit of a document
Unit(shape, k) ==
    LET id == { << "id", IntToStr(k) >> }
        text == DataTokens(SourceText(k))
    IN  CASE shape = "tu" ->
               Element(<< "t", "r", "a", "n", "s", "-", "u", "n", "i", "t" >>, id, Element(<< "s", "o", "u", "r", "c", "e" >>, {}, text))
          [] shape = "tu_ns" ->
               Element(Namespace \o << "t", "r", "a", "n", "s", "-", "u", "n", "i", "t" >>, id,
                       Element(Namespace \o << "s", "o", "u", "r", "c", "e" >>, { << XmlLang, English >> }, text))
          [] shape = "tu_target" ->
               Element(<< "t", "r", "a", "n", "s", "-", "u", "n", "i", "t" >>, id,
                       Element(<< "s", "o", "u", "r", "c", "e" >>, { << XmlLang, English >> }, text)
                       \o Element(<< "t", "a", "r", "g", "e", "t" >>, { << XmlLang, German >> }, DataTokens(Old)))
          [] shape = "tu_blank" ->
               Element(<< "t", "r", "a", "n", "s", "-", "u", "n", "i", "t" >>, id,
                       Element(<< "s", "o", "u", "r", "c", "e" >>, {}, DataTokens(<< " " >>))
                       \o Element(<< "t", "a", "r", "g", "e", "t" >>, {}, DataTokens(Old)))
          [] shape = "tu_nosource" ->
               Element(<< "t", "r", "a", "n", "s", "-", "u", "n", "i", "t" >>, id, Element(<< "n", "o", "t", "e" >>, {}, text))
          [] shape = "title" ->
               Element(<< "T", "i", "t", "l", "e" >>, {}, text)
          [] shape = "para" ->
               Element(<< "p" >>, { << "translatable", Yes >> },
                       text \o Element(<< "b" >>, {}, DataTokens(Bold))
                            \o DataTokens(<< " " >>))
          [] shape = "resname" ->
               Element(<< "g", "r", "o", "u", "p" >>, { << "resname", << "P", "a", "g", "e", "-", "H", "e", "a", "d", "i", "n", "g" >> >> }, text)
          [] shape = "nested" ->
               Element(<< "p" >>, { << "translatable", Yes >> },
                       text \o Element(<< "b" >>, { << "translatable", Yes >> }, DataTokens(Bold))
                            \o DataTokens(<< " " >>))
          [] shape = "tu_marked_source" ->
               Element(<< "t", "r", "a", "n", "s", "-", "u", "n", "i", "t" >>, id \cup { << "resname", << "S", "u", "b", "-", "T", "i", "t", "l", "e" >> >> },
                       Element(<< "s", "o", "u", "r", "c", "e" >>, { << "translatable", Yes >> }, text))
          [] OTHER ->
               Element(<< "t", "r", "a", "n", "s", "-", "u", "n", "i", "t" >>, id,
                       Element(<< "s", "o", "u", "r", "c", "e" >>, {}, text)
                       \o Element(<< "t", "a", "r", "g", "e", "t" >>, { << "translatable", Yes >> },
                                  DataTokens(Old)))

RECURSIVE Units(_, _)
Units(shapes, k) ==
    IF k > Len(shapes) THEN << >> ELSE Unit(shapes[k], k) \o Units(shapes, k + 1)

\* up to n shapes, in the order of UnitShapes (a shape may repeat)
ShapeSeqs(n) ==
    UNION { { [j \in 1..m |-> UnitShapes[ix[j]]] :
              ix \in { f \in [1..m -> 1..Len(UnitShapes)] :
                          \A j \in 1..(m - 1) : f[j] <= f[j + 1] } } :
            m \in 0..n }

Document(shapes) ==
    Element(<< "x", "l", "i", "f", "f" >>, { << "version", << "1", ".", "2" >> >> }, Units(shapes, 1))

WellFormedDocuments == { Document(shapes) : shapes \in ShapeSeqs(MaxUnits) }

\* documents the parser rejects: nothing, text only, an unclosed root, a
\* mismatched end tag, a second root
MalformedDocuments ==
    { << >>, << CharData(Hello) >> }
      \cup { SubSeq(Document(shapes), 1, Len(Document(shapes)) - 1) : shapes \in ShapeSeqs(1) }
      \cup { [Document(shapes) EXCEPT ![Len(Document(shapes))] = EndTag(<< "b", "o", "d", "y" >>)] :
                 shapes \in ShapeSeqs(1) }
      \cup { Document(shapes) \o Document(shapes) : shapes \in ShapeSeqs(1) }

Documents == WellFormedDocuments \cup MalformedDocuments

(***************************************************************************)
(* Inputs: replies of the text-completion service                          *)
(***************************************************************************)

\* the number of pieces a generated response text is made of
MaxChunks == 3

Bonjour == << "B", "o", "n", "j", "o", "u", "r" >>
Monde == << "M", "o", "n", "d", "e" >>
Salut == << "S", "a", "l", "u", "t" >>

Translations == << Bonjour, Monde, Salut >>
Translation(k) == Translations[((k - 1) % Len(Translations)) + 1]

MarkerStyles == { "none", "trans-unit", "direct", "segment" }

\* what a response puts in front of its piece number k (from 0)
Marker(style, k) ==
    CASE style = "trans-unit" ->
             ItemOpen \o IntToStr(k) \o << "]", "[", "T", "R", "A", "N", "S", "-", "U", "N", "I", "T", "]", " " >>
      [] style = "direct" ->
             ItemOpen \o IntToStr(k) \o << "]", "[", "D", "I", "R", "E", "C", "T", "]", " " >>
      [] style = "segment" ->
             << "S", "e", "g", "m", "e", "n", "t", " " >> \o IntToStr(k) \o << ":", "\n" >>
      [] OTHER -> << >>

\* piece number k (from 0); the piece numbered blank - 1 carries no text
Piece(style, k, blank) ==
    Marker(style, k) \o (IF blank = k + 1 THEN << >> ELSE Translation(k + 1))

RECURSIVE Assemble(_, _, _, _, _)
Assemble(style, blank, seps, k, n) ==
    IF k = n - 1 THEN Piece(style, k, blank)
    ELSE Piece(style, k, blank) \o seps[k + 1] \o Assemble(style, blank, seps, k + 1, n)

PatternSet == { possible_patterns[j] : j \in 1..Len(possible_patterns) }

\* n pieces of one style, all joined by the same pattern
UniformTexts(n) ==
    { Assemble(style, blank, [j \in 1..(n - 1) |-> sep], 0, n) :
        style \in MarkerStyles, blank \in 0..n, sep \in PatternSet }

\* n unmarked pieces, each gap joined by a pattern of its own
MixedTexts(n) ==
    { Assemble("none", 0, seps, 0, n) : seps \in [1..(n - 1) -> PatternSet] }

RECURSIVE Reversed(_)
Reversed(s) == IF Len(s) = 0 THEN << >> ELSE Append(Reversed(Tail(s)), s[1])

\* the n pieces of a response that answers the items marked [ITEM-k][DIRECT],
\* given in the opposite order
ReorderedText(n) ==
    Join(ItemSeparator, Reversed([k \in 1..n |-> Piece("direct", k - 1, 0)]))

ResponseTexts ==
    UNION { UniformTexts(n) : n \in 1..MaxChunks } \cup MixedTexts(MaxChunks)
        \cup { ReorderedText(n) : n \in 2..MaxChunks }

Message(text) == [transport |-> "ok", status_code |-> 200, body |-> "message", text |-> text]

\* a transport error, a timeout, an error status, a body that is not JSON, a
\* JSON body without "content", one whose "content" is an empty list
FailedReplies ==
    { [transport |-> "error", status_code |-> 0, body |-> "none", text |-> << >>],
      [transport |-> "timeout", status_code |-> 0, body |-> "none", text |-> << >>],
      [transport |-> "ok", status_code |-> 500, body |-> "error", text |-> << >>],
      [transport |-> "ok", status_code |-> 429, body |-> "error", text |-> << >>],
      [transport |-> "ok", status_code |-> 200, body |-> "not_json", text |-> << >>],
      [transport |-> "ok", status_code |-> 200, body |-> "no_content", text |-> << >>],
      [transport |-> "ok", status_code |-> 200, body |-> "empty_content", text |-> << >>] }

\* the replies to a request: a failure, a generated text, or the request echoed
Replies(request) ==
    FailedReplies \cup { Message(text) : text \in ResponseTexts \cup { request } }

(***************************************************************************)
(* translate_xliff_with_anthropic as one function of its arguments and of  *)
(* the reply of the service                                                *)
(***************************************************************************)

RECURSIVE UpdateAll(_, _, _, _, _)
\* the update loop from item number k (from 1) on
UpdateAll(elems, items, parts, lang, k) ==
    IF k > Len(items) THEN elems
    ELSE UpdateAll(IF k <= Len(parts) THEN UpdateItem(elems, items[k], parts[k], lang)
                                      ELSE elems,
                   items, parts, lang, k + 1)

translate_xliff_with_anthropic(content, source_lang, target_lang, r) ==
    LET parsed == fromstring(content)
    IN  IF ~parsed.ok THEN ExceptReturn(content)
        ELSE LET items == Extract(parsed.elems, Discover(parsed.elems))
             IN  IF Len(items) = 0 THEN tostring(parsed.elems)
                 ELSE LET out == translate_with_anthropic(CombinedText(items), source_lang,
                                                          target_lang, r)
                          text == out.result
                          parts == Reconcile(CleanParts(Split(text, SplitPattern(text))),
                                             Len(items))
                      IN  IF out.raised THEN ExceptReturn(content)
                          ELSE tostring(UpdateAll(parsed.elems, items, parts, target_lang, 1))

(***************************************************************************)
(* The connector: its fields, the token, and what the Adobe services send  *)
(***************************************************************************)

\* Python's None where the value is otherwise a text
NoText == << "None" >>

\* self.token_expiry_time = time.time() + expires_in - 300
ExpiryMargin == 300

\* token_data.get("expires_in", 86399)
DefaultExpiresIn == 86399

\* the number of readings of time.time() a run can see
MaxClock == 2

ClockReadings == { 600 * k : k \in 1..MaxClock }

Token == << "t", "o", "k" >>

\* the token service: a failed request, a token that lasts as long as the
\* margin, a token without "expires_in"
TokenReplies ==
    { [ok |-> FALSE, access_token |-> NoText, expires_in |-> 0],
      [ok |-> TRUE, access_token |-> Token, expires_in |-> ExpiryMargin],
      [ok |-> TRUE, access_token |-> Token, expires_in |-> DefaultExpiresIn] }

\* refresh_access_token at clock reading t: the fields after it, and whether
\* it raised
refresh_access_token(token, expiry, t, r) ==
    IF r.ok
    THEN [raised |-> FALSE, access_token |-> r.access_token,
          token_expiry_time |-> t + r.expires_in - ExpiryMargin]
    ELSE [raised |-> TRUE, access_token |-> token, token_expiry_time |-> expiry]

\* get_auth_headers at clock reading t: a refresh when the token has expired
get_auth_headers(token, expiry, t, r) ==
    IF t > expiry THEN refresh_access_token(token, expiry, t, r)
    ELSE [raised |-> FALSE, access_token |-> token, token_expiry_time |-> expiry]

\* s.strip(chars)
RECURSIVE LStripChars(_, _)
LStripChars(s, chars) ==
    IF Len(s) > 0 /\ s[1] \in chars THEN LStripChars(Tail(s), chars) ELSE s

RECURSIVE RStripChars(_, _)
RStripChars(s, chars) ==
    IF Len(s) > 0 /\ s[Len(s)] \in chars THEN RStripChars(SubSeq(s, 1, Len(s) - 1), chars)
    ELSE s

StripChars(s, chars) == RStripChars(LStripChars(s, chars), chars)

RelNext == << "r", "e", "l", "=", "\"", "n", "e", "x", "t", "\"" >>

RECURSIVE NextLink(_, _)
\* for link in links: if 'rel="next"' in link: link.split(";")[0].strip("<>")
\* of the first such link; current when there is none
NextLink(links, current) ==
    IF Len(links) = 0 THEN current
    ELSE IF Contains(links[1], RelNext)
         THEN StripChars(Split(links[1], << ";" >>)[1], { "<", ">" })
         ELSE NextLink(Tail(links), current)

\* a poll that forgets the cursor when the page names no next one
NextUrlOrNone(link_header, current) ==
    IF link_header = NoText \/ Len(link_header) = 0 THEN NoText
    ELSE NextLink(Split(link_header, << "," >>), NoText)

\* the cursor after a page with this Link header (NoText: no such header)
NextUrlAfter(link_header, current) ==
    IF link_header = NoText \/ Len(link_header) = 0 THEN current
    ELSE NextLink(Split(link_header, << "," >>), current)

LinkHeaders ==
    { NoText,
      << "<", "/", "e", "v", "e", "n", "t", "s", "-", "f", "a", "s", "t", "/", "j", "?", "s", "i", "n", "c", "e", "=", "a", ">", ";", " ", "r", "e", "l", "=", "\"", "n", "e", "x", "t", "\"" >>,
      << "<", "/", "e", "v", "e", "n", "t", "s", "/", "j", "?", "s", "i", "n", "c", "e", "=", "0", ">", ";", " ", "r", "e", "l", "=", "\"", "p", "r", "e", "v", "\"" >>,
      << "<", "/", "e", "v", "e", "n", "t", "s", "/", "j", "?", "s", "i", "n", "c", "e", "=", "0", ">", ";", " ", "r", "e", "l", "=", "\"", "p", "r", "e", "v", "\"", ",", " ", "<", "/", "e", "v", "e", "n", "t", "s", "-", "f", "a", "s", "t", "/", "j", "?", "s", "i", "n", "c", "e", "=", "b", ">", ";", " ", "r", "e", "l", "=", "\"", "n", "e", "x", "t", "\"" >> }

EventsHost == << "h", "t", "t", "p", "s", ":", "/", "/", "e", "v", "e", "n", "t", "s", "-", "v", "a", "6", ".", "a", "d", "o", "b", "e", ".", "i", "o" >>

EventsFastMark == << "<", "/", "e", "v", "e", "n", "t", "s", "-", "f", "a", "s", "t", "/" >>

\* fix_url: the stored cursor made into the URL that is requested
fix_url(url) ==
    IF Len(url) = 0 THEN url
    ELSE LET u == Strip(url)
         IN  IF Contains(u, EventsFastMark)
             THEN EventsHost \o << "/", "e", "v", "e", "n", "t", "s", "-", "f", "a", "s", "t", "/" >> \o Split(u, EventsFastMark)[2]
             ELSE IF ~StartsAt(u, << "h", "t", "t", "p" >>, 1)
                  THEN IF StartsAt(u, << "/" >>, 1) THEN EventsHost \o u
                                                ELSE EventsHost \o << "/" >> \o u
                  ELSE u

\* f"{self.journaling_base_url}{self.journaling_endpoint}?limit=10"
FirstPageUrl == << "h", "t", "t", "p", "s", ":", "/", "/", "j", "o", "u", "r", "n", "a", "l", "/", "e", "v", "e", "n", "t", "s", "?", "l", "i", "m", "i", "t", "=", "1", "0" >>

\* the URL poll_for_events requests
PollUrl(cursor) == IF cursor = NoText THEN FirstPageUrl ELSE fix_url(cursor)

\* the number of events a page carries
MaxEvents == 1

NoEvent ==
    [eventCode |-> "none", taskId |-> "none", sourceLocale |-> NoText,
     targetLocale |-> NoText, assetName |-> "none", assetUrl |-> NoText]

\* the event bodies a page can carry: a TRANSLATE, a RE_TRANSLATE with and
\* without asset URL, an event of another code
EventBodies ==
    { [eventCode |-> "TRANSLATE", taskId |-> "task", sourceLocale |-> English,
       targetLocale |-> French, assetName |-> "none", assetUrl |-> NoText],
      [eventCode |-> "RE_TRANSLATE", taskId |-> "task", sourceLocale |-> English,
       targetLocale |-> French, assetName |-> "page", assetUrl |-> << "h", "t", "t", "p", "s", ":", "/", "/", "s", "/", "p", "a", "g", "e" >>],
      [eventCode |-> "RE_TRANSLATE", taskId |-> "task", sourceLocale |-> English,
       targetLocale |-> French, assetName |-> "page", assetUrl |-> NoText],
      [eventCode |-> "TASK_UPDATED", taskId |-> "task", sourceLocale |-> English,
       targetLocale |-> French, assetName |-> "none", assetUrl |-> NoText] }

Pages == UNION { [1..n -> EventBodies] : n \in 0..MaxEvents }

\* the journaling endpoint: no answer, an error status, no content, a page,
\* a body that is not JSON
PollResponses ==
    { [transport |-> "error", status_code |-> 0, link |-> NoText, body |-> "none",
       events |-> << >>],
      [transport |-> "ok", status_code |-> 500, link |-> NoText, body |-> "error",
       events |-> << >>],
      [transport |-> "ok", status_code |-> 204, link |-> NoText, body |-> "none",
       events |-> << >>] }
      \cup { [transport |-> "ok", status_code |-> 200, link |-> l, body |-> "json",
              events |-> p] : l \in LinkHeaders, p \in Pages }
      \cup { [transport |-> "ok", status_code |-> 200, link |-> l, body |-> "not_json",
              events |-> << >>] : l \in LinkHeaders }

\* the number of assets a task has
MaxAssets == 2

\* an asset with a NORMALIZED URL in the given locale, and one with a SOURCE
\* URL only
Asset(name, locale) ==
    [name |-> name,
     assetUrls |-> << [urlType |-> "SOURCE", locale |-> English, url |-> << "s", "/", "s", "r", "c" >>],
                      [urlType |-> "NORMALIZED", locale |-> locale, url |-> << "s", "/", "n", "o", "r", "m" >>] >>]

Assets == { Asset("home", English), Asset("about", French) }

AssetLists == UNION { [1..n -> Assets] : n \in 0..MaxAssets }

\* an answer of a GCS endpoint that is a status only
StatusReplies ==
    { [transport |-> "error", status_code |-> 0],
      [transport |-> "ok", status_code |-> 500],
      [transport |-> "ok", status_code |-> 200] }

\* requests raised, or raise_for_status does
RequestFails(r) == r.transport # "ok" \/ RaisesForStatus(r.status_code)

\* the first URL of the asset that is NORMALIZED and in the source locale
NormalizedUrl(asset, source_locale) ==
    LET hits == { j \in 1..Len(asset.assetUrls) :
                    /\ asset.assetUrls[j].urlType = "NORMALIZED"
                    /\ asset.assetUrls[j].locale = source_locale }
    IN  IF hits = {} THEN NoText
        ELSE asset.assetUrls[CHOOSE j \in hits : \A q \in hits : j <= q].url

\* the documents the storage holds: one with two units, one cut short
StoredDocuments ==
    { Document(<< "tu", "tu_target" >>),
      SubSeq(Document(<< "tu" >>), 1, Len(Document(<< "tu" >>)) - 1) }

\* the replies of the completion service to a handler's document
HandlerReplies ==
    { [transport |-> "ok", status_code |-> 500, body |-> "error", text |-> << >>],
      Message(Join(ItemSeparator, << Bonjour, Monde >>)) }

UploadedUrl == << "h", "t", "t", "p", "s", ":", "/", "/", "s", "/", "o", "u", "t" >>

\* no answer to a request
NoAnswer == [transport |-> "none", status_code |-> 0, link |-> NoText]

\* the last request sent, and for the journaling request what came back
NoRequest ==
    [method |-> "none", endpoint |-> "none", name |-> "none", content |-> << >>,
     status |-> "none", url |-> NoText, answer |-> NoAnswer]

(***************************************************************************)
(* State: one call of translate_xliff_with_anthropic                       *)
(***************************************************************************)

VARIABLES
    pc,                  \* where the call is
    xliff_content,       \* argument: the document
    source_language,     \* argument
    target_language,     \* argument
    root,                \* the parsed tree, updated in place
    all_elements,        \* the de-duplicated elements found
    translation_items,   \* the tuples of the elements with text
    combined_text,       \* the text sent
    calls,               \* requests.post calls made
    reply,               \* the reply of the service
    translated_combined, \* the text received
    split_pattern,
    translated_parts,
    cleaned_parts,
    idx,                 \* the update loop's index
    result,              \* the value returned
    access_token,        \* self.access_token
    token_expiry_time,   \* self.token_expiry_time
    next_url,            \* self.next_url
    at,                  \* where run, poll_for_events and the handlers are
    events,              \* the events of the page still to be handled
    event,               \* the event being handled
    assets,              \* the assets of the task
    asset_no,            \* the assets of the task handled so far
    translated_url,      \* where the translated document was stored
    http,                \* the last request sent to an Adobe service
    logged               \* the "action" of the last log record

\* the fields of the connector that runs of poll_for_events set
connector == << access_token, token_expiry_time, next_url >>

\* the state of run, poll_for_events and the event handlers
handling == << at, events, event, assets, asset_no, translated_url, http, logged >>

\* the locals of a call of translate_xliff_with_anthropic
locals ==
    << root, all_elements, translation_items, combined_text, calls,
       translated_combined, split_pattern, translated_parts, cleaned_parts, idx >>

vars ==
    << pc, xliff_content, source_language, target_language, root, all_elements,
       translation_items, combined_text, calls, reply, translated_combined,
       split_pattern, translated_parts, cleaned_parts, idx, result, connector, handling >>

args == << xliff_content, source_language, target_language >>

Init ==
    /\ pc = "parse"
    /\ xliff_content \in Documents
    /\ source_language = English
    /\ target_language = French
    /\ root = << >>
    /\ all_elements = << >>
    /\ translation_items = << >>
    /\ combined_text = << >>
    /\ calls = 0
    /\ reply = NoReply
    /\ translated_combined = << >>
    /\ split_pattern = << >>
    /\ translated_parts = << >>
    /\ cleaned_parts = << >>
    /\ idx = 0
    /\ result = << >>
    /\ access_token = NoText
    /\ token_expiry_time = 0
    /\ next_url = NoText
    /\ at = "call"
    /\ events = << >>
    /\ event = NoEvent
    /\ assets = << >>
    /\ asset_no = 0
    /\ translated_url = NoText
    /\ http = NoRequest
    /\ logged = "init"

\* root = ET.fromstring(xliff_content)
Parse ==
    /\ pc = "parse"
    /\ fromstring(xliff_content).ok
    /\ root' = fromstring(xliff_content).elems
    /\ pc' = "discover"
    /\ UNCHANGED << connector, handling, args, all_elements, translation_items, combined_text, calls, reply,
                    translated_combined, split_pattern, translated_parts,
                    cleaned_parts, idx, result >>

\* ET.fromstring raises: the handler returns the original content
ParseFails ==
    /\ pc = "parse"
    /\ ~fromstring(xliff_content).ok
    /\ result' = ExceptReturn(xliff_content)
    /\ pc' = "done"
    /\ UNCHANGED << connector, handling, args, root, all_elements, translation_items, combined_text, calls,
                    reply, translated_combined, split_pattern, translated_parts,
                    cleaned_parts, idx >>

\* the four passes and the de-duplication
DiscoverElements ==
    /\ pc = "discover"
    /\ all_elements' = Discover(root)
    /\ pc' = "extract"
    /\ UNCHANGED << connector, handling, args, root, translation_items, combined_text, calls, reply,
                    translated_combined, split_pattern, translated_parts,
                    cleaned_parts, idx, result >>

\* the request made whatever the items
AlwaysRequest(items) == "request"

\* if translation_items: ... (otherwise straight to the serialisation)
AfterExtraction(items) == IF Len(items) > 0 THEN "request" ELSE "serialize"

\* the extraction loop
ExtractItems ==
    /\ pc = "extract"
    /\ translation_items' = Extract(root, all_elements)
    /\ pc' = AfterExtraction(translation_items')
    /\ UNCHANGED << connector, handling, args, root, all_elements, combined_text, calls, reply,
                    translated_combined, split_pattern, translated_parts,
                    cleaned_parts, idx, result >>

\* combined_text is built and translate_with_anthropic posts it
SendRequest ==
    /\ pc = "request"
    /\ combined_text' = CombinedText(translation_items)
    /\ calls' = calls + 1
    /\ pc' = "await"
    /\ UNCHANGED << connector, handling, args, root, all_elements, translation_items, reply,
                    translated_combined, split_pattern, translated_parts,
                    cleaned_parts, idx, result >>

\* the service replies and translate_with_anthropic returns the text
ReceiveText ==
    /\ pc = "await"
    /\ \E r \in Replies(combined_text) :
          LET out == translate_with_anthropic(combined_text, source_language,
                                              target_language, r)
          IN  /\ ~out.raised
              /\ reply' = r
              /\ translated_combined' = out.result
    /\ pc' = "split"
    /\ UNCHANGED << connector, handling, args, root, all_elements, translation_items, combined_text, calls,
                    split_pattern, translated_parts, cleaned_parts, idx, result >>

\* a failed call that also drops the Adobe token
CallFailsDropsToken ==
    /\ pc = "await"
    /\ \E r \in Replies(combined_text) :
          /\ translate_with_anthropic(combined_text, source_language,
                                      target_language, r).raised
          /\ reply' = r
    /\ result' = ExceptReturn(xliff_content)
    /\ pc' = "done"
    /\ access_token' = NoText
    /\ token_expiry_time' = 0
    /\ UNCHANGED << next_url, handling, args, root, all_elements, translation_items,
                    combined_text, calls, translated_combined, split_pattern,
                    translated_parts, cleaned_parts, idx >>

\* translate_with_anthropic raises: the handler returns the original content
CallFails ==
    /\ pc = "await"
    /\ \E r \in Replies(combined_text) :
          /\ translate_with_anthropic(combined_text, source_language,
                                      target_language, r).raised
          /\ reply' = r
    /\ result' = ExceptReturn(xliff_content)
    /\ pc' = "done"
    /\ UNCHANGED << connector, handling, args, root, all_elements, translation_items, combined_text, calls,
                    translated_combined, split_pattern, translated_parts,
                    cleaned_parts, idx >>

\* the separator is chosen, the text split, the parts cleaned and their
\* number reconciled with the number of items
ParseResponse ==
    /\ pc = "split"
    /\ split_pattern' = SplitPattern(translated_combined)
    /\ translated_parts' = Split(translated_combined, split_pattern')
    /\ cleaned_parts' = Reconcile(CleanParts(translated_parts'), Len(translation_items))
    /\ idx' = 0
    /\ pc' = "update"
    /\ UNCHANGED << connector, handling, args, root, all_elements, translation_items, combined_text, calls,
                    reply, translated_combined, result >>

\* one iteration of the update loop
UpdateElement ==
    /\ pc = "update"
    /\ idx < Len(translation_items)
    /\ root' = IF idx < Len(cleaned_parts)
               THEN UpdateItem(root, translation_items[idx + 1], cleaned_parts[idx + 1],
                               target_language)
               ELSE root
    /\ idx' = idx + 1
    /\ UNCHANGED << connector, handling, pc, args, all_elements, translation_items, combined_text, calls,
                    reply, translated_combined, split_pattern, translated_parts,
                    cleaned_parts, result >>

\* return ET.tostring(root, ...)
Serialize ==
    /\ \/ pc = "serialize"
       \/ pc = "update" /\ idx = Len(translation_items)
    /\ result' = tostring(root)
    /\ pc' = "done"
    /\ UNCHANGED << connector, handling, args, root, all_elements, translation_items, combined_text, calls,
                    reply, translated_combined, split_pattern, translated_parts,
                    cleaned_parts, idx >>

Next ==
    \/ Parse
    \/ ParseFails
    \/ DiscoverElements
    \/ ExtractItems
    \/ SendRequest
    \/ ReceiveText
    \/ CallFails
    \/ ParseResponse
    \/ UpdateElement
    \/ Serialize

Spec == Init /\ [][Next]_vars

(***************************************************************************)
(* Calls one after the other, on a connector whose fields have been set    *)
(***************************************************************************)

\* the fields of a connector: as __init__ leaves them, or with a token and
\* with or without a cursor
ConnectorStates ==
    { << NoText, 0, NoText >> }
      \cup { << out.access_token, out.token_expiry_time, url >> :
                out \in { refresh_access_token(NoText, 0, t, r) :
                            t \in ClockReadings, r \in { x \in TokenReplies : x.ok } },
                url \in { NextUrlAfter(l, NoText) : l \in LinkHeaders } }

\* the documents handed over one after the other
SessionDocuments ==
    { Document(<< "tu" >>),
      Document(<< "para", "tu_target" >>),
      SubSeq(Document(<< "tu" >>), 1, Len(Document(<< "tu" >>)) - 1) }

SessionInit ==
    /\ pc = "parse"
    /\ xliff_content \in SessionDocuments
    /\ source_language = English
    /\ target_language = French
    /\ root = << >>
    /\ all_elements = << >>
    /\ translation_items = << >>
    /\ combined_text = << >>
    /\ calls = 0
    /\ reply = NoReply
    /\ translated_combined = << >>
    /\ split_pattern = << >>
    /\ translated_parts = << >>
    /\ cleaned_parts = << >>
    /\ idx = 0
    /\ result = << >>
    /\ \E c \in ConnectorStates :
          access_token = c[1] /\ token_expiry_time = c[2] /\ next_url = c[3]
    /\ at = "call"
    /\ events = << >>
    /\ event = NoEvent
    /\ assets = << >>
    /\ asset_no = 0
    /\ translated_url = NoText
    /\ http = NoRequest
    /\ logged = "init"

\* the call has returned; the connector goes on (its fields may be set
\* again) and a handler calls translate_xliff_with_anthropic for another
\* document: the locals are new
NextCall ==
    /\ pc = "done"
    /\ pc' = "parse"
    /\ xliff_content' \in SessionDocuments
    /\ \E c \in ConnectorStates :
          access_token' = c[1] /\ token_expiry_time' = c[2] /\ next_url' = c[3]
    /\ root' = << >>
    /\ all_elements' = << >>
    /\ translation_items' = << >>
    /\ combined_text' = << >>
    /\ calls' = 0
    /\ reply' = NoReply
    /\ translated_combined' = << >>
    /\ split_pattern' = << >>
    /\ translated_parts' = << >>
    /\ cleaned_parts' = << >>
    /\ idx' = 0
    /\ result' = << >>
    /\ UNCHANGED << source_language, target_language, handling >>

SessionNext ==
    \/ Parse
    \/ ParseFails
    \/ DiscoverElements
    \/ ExtractItems
    \/ SendRequest
    \/ ReceiveText
    \/ CallFails
    \/ ParseResponse
    \/ UpdateElement
    \/ Serialize
    \/ NextCall

SessionSpec == SessionInit /\ [][SessionNext]_vars

(***************************************************************************)
(* run, poll_for_events and the event handlers                             *)
(***************************************************************************)

ConnectorInit ==
    /\ pc = "idle"
    /\ xliff_content = << >>
    /\ source_language = NoText
    /\ target_language = NoText
    /\ root = << >>
    /\ all_elements = << >>
    /\ translation_items = << >>
    /\ combined_text = << >>
    /\ calls = 0
    /\ reply = NoReply
    /\ translated_combined = << >>
    /\ split_pattern = << >>
    /\ translated_parts = << >>
    /\ cleaned_parts = << >>
    /\ idx = 0
    /\ result = << >>
    /\ access_token = NoText
    /\ token_expiry_time = 0
    /\ next_url = NoText
    /\ at = "run"
    /\ events = << >>
    /\ event = NoEvent
    /\ assets = << >>
    /\ asset_no = 0
    /\ translated_url = NoText
    /\ http = NoRequest
    /\ logged = "init"

\* what get_auth_headers can do in the current state
AuthOutcomes ==
    { get_auth_headers(access_token, token_expiry_time, t, r) :
        t \in ClockReadings, r \in TokenReplies }

TokenRequest == [NoRequest EXCEPT !.method = "POST", !.endpoint = "token"]

IsTranslate == event.eventCode = "TRANSLATE"

\* the record the handler's except clause logs
ErrorLog == IF IsTranslate THEN "translate_event_error" ELSE "retranslate_event_error"

\* asset_name in the handler
AssetName == IF IsTranslate THEN assets[asset_no + 1].name ELSE event.assetName

\* run: the first refresh_access_token; an exception ends run
Run ==
    /\ at = "run"
    /\ \E t \in ClockReadings, r \in TokenReplies :
          LET out == refresh_access_token(access_token, token_expiry_time, t, r)
          IN  /\ access_token' = out.access_token
              /\ token_expiry_time' = out.token_expiry_time
              /\ at' = IF out.raised THEN "stopped" ELSE "poll"
              /\ logged' = IF out.raised THEN "refresh_token_error"
                                         ELSE "refresh_token_success"
    /\ http' = TokenRequest
    /\ UNCHANGED << next_url, events, event, assets, asset_no, translated_url, pc, args,
                    locals, reply, result >>

\* poll_for_events up to the loop over the events.  The cursor is set from
\* the Link header before response.json() is called: when the body is not
\* JSON the exception is logged by poll_for_events (a RequestException) or by
\* run (any other exception), and in both cases run sleeps.
PollForEvents ==
    /\ at = "poll"
    /\ \E auth \in AuthOutcomes, r \in PollResponses :
          /\ access_token' = auth.access_token
          /\ token_expiry_time' = auth.token_expiry_time
          /\ http' = IF auth.raised THEN TokenRequest
                     ELSE [NoRequest EXCEPT
                             !.method = "GET", !.endpoint = "journal",
                             !.url = PollUrl(next_url),
                             !.answer = [transport |-> r.transport,
                                         status_code |-> r.status_code,
                                         link |-> r.link]]
          /\ IF auth.raised \/ RequestFails(r)
             THEN /\ logged' = "poll_events_error"
                  /\ at' = "sleep"
                  /\ UNCHANGED << next_url, events >>
             ELSE IF r.status_code = 204
                  THEN /\ logged' = "poll_events_result"
                       /\ at' = "sleep"
                       /\ UNCHANGED << next_url, events >>
                  ELSE /\ next_url' = NextUrlAfter(r.link, next_url)
                       /\ IF r.body = "json"
                          THEN /\ events' = r.events
                               /\ logged' = "events_received"
                               /\ at' = "dispatch"
                          ELSE /\ logged' \in { "poll_events_error", "main_loop_error" }
                               /\ at' = "sleep"
                               /\ UNCHANGED events
    /\ UNCHANGED << event, assets, asset_no, translated_url, pc, args, locals, reply,
                    result >>

\* for event_wrapper in events: the handler is chosen by the event code
Dispatch ==
    /\ at = "dispatch"
    /\ IF Len(events) = 0
       THEN /\ logged' = "events_processed"
            /\ at' = "sleep"
            /\ UNCHANGED << events, event >>
       ELSE /\ event' = events[1]
            /\ events' = Tail(events)
            /\ at' = CASE events[1].eventCode = "TRANSLATE" -> "get_assets"
                       [] events[1].eventCode = "RE_TRANSLATE" -> "retranslate"
                       [] OTHER -> "dispatch"
            /\ logged' = CASE events[1].eventCode = "TRANSLATE" -> "translate_event"
                           [] events[1].eventCode = "RE_TRANSLATE" -> "retranslate_event"
                           [] OTHER -> "unknown_event"
    /\ UNCHANGED << connector, assets, asset_no, translated_url, http, pc, args, locals,
                    reply, result >>

\* handle_retranslate_event: without asset URL the handler returns
RetranslateEntry ==
    /\ at = "retranslate"
    /\ IF event.assetUrl = NoText \/ Len(event.assetUrl) = 0
       THEN logged' = "no_asset_url" /\ at' = "return"
       ELSE logged' = "download_xliff" /\ at' = "download"
    /\ UNCHANGED << connector, events, event, assets, asset_no, translated_url, http, pc,
                    args, locals, reply, result >>

\* step 1 of handle_translate_event: get_assets
GetAssets ==
    /\ at = "get_assets"
    /\ \E auth \in AuthOutcomes, r \in StatusReplies, list \in AssetLists :
          /\ access_token' = auth.access_token
          /\ token_expiry_time' = auth.token_expiry_time
          /\ http' = IF auth.raised THEN TokenRequest
                     ELSE [NoRequest EXCEPT !.method = "GET", !.endpoint = "assets"]
          /\ IF auth.raised \/ RequestFails(r)
             THEN logged' = ErrorLog /\ at' = "return" /\ UNCHANGED << assets, asset_no >>
             ELSE IF Len(list) = 0
                  THEN /\ logged' = "no_assets"
                       /\ at' = "return"
                       /\ UNCHANGED << assets, asset_no >>
                  ELSE /\ assets' = list
                       /\ asset_no' = 0
                       /\ logged' = "assets_retrieved"
                       /\ at' = "asset"
    /\ UNCHANGED << next_url, events, event, translated_url, pc, args, locals, reply,
                    result >>

\* for asset in assets: an asset without NORMALIZED URL in the source locale
\* is passed over; after the last asset the handler returns
NextAsset ==
    /\ at = "asset"
    /\ IF asset_no = Len(assets)
       THEN at' = "return" /\ UNCHANGED << asset_no, logged >>
       ELSE IF NormalizedUrl(assets[asset_no + 1], event.sourceLocale) = NoText
            THEN /\ logged' = "no_normalized_url"
                 /\ asset_no' = asset_no + 1
                 /\ UNCHANGED at
            ELSE /\ logged' = "object_key"
                 /\ at' = "download"
                 /\ UNCHANGED asset_no
    /\ UNCHANGED << connector, events, event, assets, translated_url, http, pc, args,
                    locals, reply, result >>

\* step 2: get_asset_content, or the GET of the event's asset URL
Download ==
    /\ at = "download"
    /\ \E auth \in AuthOutcomes, r \in StatusReplies, doc \in StoredDocuments :
          /\ access_token' = auth.access_token
          /\ token_expiry_time' = auth.token_expiry_time
          /\ http' = IF auth.raised THEN TokenRequest
                     ELSE IF IsTranslate
                          THEN [NoRequest EXCEPT
                                  !.method = "GET", !.endpoint = "assetContent",
                                  !.url = NormalizedUrl(assets[asset_no + 1],
                                                        event.sourceLocale)]
                          ELSE [NoRequest EXCEPT !.method = "GET", !.endpoint = "assetUrl",
                                                 !.url = event.assetUrl]
          /\ IF auth.raised \/ RequestFails(r)
             THEN logged' = ErrorLog /\ at' = "return" /\ UNCHANGED xliff_content
             ELSE /\ xliff_content' = doc
                  /\ logged' = "xliff_retrieved"
                  /\ at' = "translate"
    /\ UNCHANGED << next_url, events, event, assets, asset_no, translated_url, pc,
                    source_language, target_language, locals, reply, result >>

\* step 3: the call of translate_xliff_with_anthropic, which never raises
Translate ==
    /\ at = "translate"
    /\ source_language' = event.sourceLocale
    /\ target_language' = event.targetLocale
    /\ \E r \in HandlerReplies :
          /\ reply' = r
          /\ result' = translate_xliff_with_anthropic(xliff_content, event.sourceLocale,
                                                      event.targetLocale, r)
    /\ logged' = "xliff_translated"
    /\ at' = "upload"
    /\ UNCHANGED << connector, events, event, assets, asset_no, translated_url, http, pc,
                    xliff_content, locals >>

\* a handler that compares what the translation returned with what it was
\* given and gives up when they are the same
UploadChecksTranslation ==
    /\ at = "upload"
    /\ IF result = xliff_content
       THEN /\ logged' = "translation_failed"
            /\ at' = "return"
            /\ UNCHANGED << connector, translated_url, http >>
       ELSE \E auth \in AuthOutcomes, r \in StatusReplies, url \in { UploadedUrl, NoText } :
               /\ access_token' = auth.access_token
               /\ token_expiry_time' = auth.token_expiry_time
               /\ http' = IF auth.raised THEN TokenRequest
                          ELSE [NoRequest EXCEPT
                                  !.method = "POST", !.endpoint = "uploadToStorage",
                                  !.name = AssetName, !.content = result]
               /\ IF auth.raised \/ RequestFails(r)
                  THEN logged' = ErrorLog /\ at' = "return" /\ UNCHANGED translated_url
                  ELSE /\ translated_url' = url
                       /\ logged' = "content_uploaded"
                       /\ at' = "update_state"
               /\ UNCHANGED next_url
    /\ UNCHANGED << events, event, assets, asset_no, pc, args, locals, reply, result >>

\* step 4: upload_translated_content
Upload ==
    /\ at = "upload"
    /\ \E auth \in AuthOutcomes, r \in StatusReplies, url \in { UploadedUrl, NoText } :
          /\ access_token' = auth.access_token
          /\ token_expiry_time' = auth.token_expiry_time
          /\ http' = IF auth.raised THEN TokenRequest
                     ELSE [NoRequest EXCEPT
                             !.method = "POST", !.endpoint = "uploadToStorage",
                             !.name = AssetName, !.content = result]
          /\ IF auth.raised \/ RequestFails(r)
             THEN logged' = ErrorLog /\ at' = "return" /\ UNCHANGED translated_url
             ELSE /\ translated_url' = url
                  /\ logged' = "content_uploaded"
                  /\ at' = "update_state"
    /\ UNCHANGED << next_url, events, event, assets, asset_no, pc, args, locals, reply,
                    result >>

\* step 5, complete_asset_translation: the PUT that sets IN_TRANSLATION
UpdateAssetState ==
    /\ at = "update_state"
    /\ \E auth \in AuthOutcomes, r \in StatusReplies :
          /\ access_token' = auth.access_token
          /\ token_expiry_time' = auth.token_expiry_time
          /\ http' = IF auth.raised THEN TokenRequest
                     ELSE [NoRequest EXCEPT
                             !.method = "PUT", !.endpoint = "locale",
                             !.name = AssetName, !.status = "IN_TRANSLATION"]
          /\ IF auth.raised \/ RequestFails(r)
             THEN logged' = ErrorLog /\ at' = "return"
             ELSE logged' = "update_asset_state_success" /\ at' = "complete"
    /\ UNCHANGED << next_url, events, event, assets, asset_no, translated_url, pc, args,
                    locals, reply, result >>

\* step 5, complete_asset_translation: the PUT that completes the asset, and
\* the handler's way on (the next asset, or the return)
CompleteAsset ==
    /\ at = "complete"
    /\ \E auth \in AuthOutcomes, r \in StatusReplies :
          /\ access_token' = auth.access_token
          /\ token_expiry_time' = auth.token_expiry_time
          /\ http' = IF auth.raised THEN TokenRequest
                     ELSE [NoRequest EXCEPT
                             !.method = "PUT", !.endpoint = "locale/complete",
                             !.name = AssetName, !.status = "TRANSLATED",
                             !.url = translated_url]
          /\ IF auth.raised \/ RequestFails(r)
             THEN logged' = ErrorLog /\ at' = "return" /\ UNCHANGED asset_no
             ELSE /\ logged' = "asset_completed"
                  /\ IF IsTranslate
                     THEN asset_no' = asset_no + 1 /\ at' = "asset"
                     ELSE at' = "return" /\ UNCHANGED asset_no
    /\ UNCHANGED << next_url, events, event, assets, translated_url, pc, args, locals,
                    reply, result >>

\* the handler returns, at its end or from its except clause: its locals
\* are gone
Return ==
    /\ at = "return"
    /\ at' = "dispatch"
    /\ assets' = << >>
    /\ asset_no' = 0
    /\ translated_url' = NoText
    /\ xliff_content' = << >>
    /\ source_language' = NoText
    /\ target_language' = NoText
    /\ reply' = NoReply
    /\ result' = << >>
    /\ UNCHANGED << connector, events, event, http, logged, pc, locals >>

\* run: time.sleep(self.poll_interval), then the next poll
Sleep ==
    /\ at = "sleep"
    /\ at' = "poll"
    /\ logged' = "sleeping"
    /\ UNCHANGED << connector, events, event, assets, asset_no, translated_url, http, pc,
                    args, locals, reply, result >>

ConnectorNext ==
    \/ Run
    \/ PollForEvents
    \/ Dispatch
    \/ RetranslateEntry
    \/ GetAssets
    \/ NextAsset
    \/ Download
    \/ Translate
    \/ Upload
    \/ UpdateAssetState
    \/ CompleteAsset
    \/ Return
    \/ Sleep

ConnectorSpec == ConnectorInit /\ [][ConnectorNext]_vars

(***************************************************************************)
(* Properties                                                              *)
(***************************************************************************)

\* the tree as parsed, before any update
Original == fromstring(xliff_content).elems

\* the completion call failed: no connection or a timeout, an error status,
\* or a body without content[0].text
ServiceFailed ==
    \/ reply.transport \in { "error", "timeout" }
    \/ /\ reply.transport = "ok"
       /\ (reply.status_code \notin 200..299 \/ reply.body # "message")

\* C1: when the completion call fails, the call returns (it does not raise)
\* and what it returns is the document it was given, whatever the document
\* and whatever the failure.
C1_FailedCallReturnsInput ==
    (pc = "done" /\ ServiceFailed) => (result = xliff_content /\ root = Original)

C1_Witness ==
    /\ pc = "done"
    /\ ServiceFailed
    /\ calls = 1
    /\ Len(translation_items) = 2
    /\ result = xliff_content

\* C2: a document that is not well-formed comes back unchanged: the call
\* returns the content it was given, and nothing was parsed, sent or written.
C2_MalformedReturnsInput ==
    (pc = "done" /\ xliff_content \in MalformedDocuments) =>
        (result = xliff_content /\ root = << >> /\ calls = 0)

C2_Witness ==
    /\ pc = "done"
    /\ xliff_content \in MalformedDocuments
    /\ Len(xliff_content) > 1
    /\ result = xliff_content

\* the response has been split, cleaned and reconciled
ResponseParsed == pc = "update" \/ (pc = "done" /\ ~ServiceFailed /\ calls > 0)

\* the kinds the request emits, as they appear in a marker
MarkerKinds == { Upper(TypeTransUnit), Upper(TypeDirect) }

\* s holds an item marker [ITEM-<digits>][<KIND>] of one of the emitted kinds
HasItemMarker(s) ==
    \E p \in 1..Len(s), kind \in MarkerKinds :
        /\ StartsAt(s, ItemOpen, p)
        /\ DigitsEnd(s, p + 6) > p + 6
        /\ StartsAt(s, << "]", "[" >> \o kind \o << "]" >>, DigitsEnd(s, p + 6))

\* the text of the target child of the trans-unit that is the k-th child of
\* the root, << >> when it has none
TargetTextOfUnit(elems, k) ==
    LET unit == elems[1].children[k]
        targets == { c \in 1..Len(elems) :
                       /\ \E j \in 1..Len(elems[unit].children) :
                              elems[unit].children[j] = c
                       /\ EndsWith(elems[c].tag, TargetSuffix) }
    IN  IF targets = {} THEN << >> ELSE elems[CHOOSE c \in targets : TRUE].text

\* C3: after response parsing no chunk retains an item marker, for both
\* kinds TRANS-UNIT and DIRECT and whichever delimiter matched.
C3_NoMarkerRemains ==
    ResponseParsed =>
        \A k \in 1..Len(cleaned_parts) : ~HasItemMarker(cleaned_parts[k])

TwoUnits == Document(<< "tu", "tu" >>)

SegmentResponse ==
    << "S", "e", "g", "m", "e", "n", "t", " ", "0", ":", "\n", "B", "o", "n", "j", "o", "u", "r", "\n", "\n", "S", "e", "g", "m", "e", "n", "t", " ", "1", ":", "\n", "M", "o", "n", "d", "e" >>

\* C4: for two trans-units "Hello" and "World" without targets and the
\* response "Segment 0:\nBonjour\n\nSegment 1:\nMonde", each trans-unit gains
\* exactly one target child, with the texts "Bonjour" and "Monde", and
\* sources, ids and structure stay as they were.
C4_SegmentExample ==
    (pc = "done" /\ xliff_content = TwoUnits /\ translated_combined = SegmentResponse) =>
        /\ Len(root) = Len(Original) + 2
        /\ \A k \in 1..2 : Len(root[root[1].children[k]].children) = 2
        /\ TargetTextOfUnit(root, 1) = Bonjour
        /\ TargetTextOfUnit(root, 2) = Monde
        /\ \A id \in 1..Len(Original) :
              /\ root[id].tag = Original[id].tag
              /\ root[id].attrib = Original[id].attrib
              /\ root[id].text = Original[id].text

\* the parts after cleaning, before their number is reconciled
RawParts == CleanParts(translated_parts)

IsPrefix(a, b) == Len(a) <= Len(b) /\ SubSeq(b, 1, Len(a)) = a

HasTargetChild(elems, id) ==
    \E j \in 1..Len(elems[id].children) :
        EndsWith(elems[elems[id].children[j]].tag, TargetSuffix)

\* the text at the place an item is written to: its target, the target
\* created for it (the unit's last child, if it is not one of the first
\* nOrig elements), or the element itself
AnchorText(elems, item, nOrig) ==
    IF item.element_type = TypeTransUnit
    THEN IF item.target # None THEN elems[item.target].text
         ELSE LET kids == elems[item.element].children
              IN  IF Len(kids) > 0 /\ kids[Len(kids)] > nOrig
                  THEN elems[kids[Len(kids)]].text
                  ELSE << >>
    ELSE elems[item.element].text

\* the call returned the serialised tree after visiting every item
ReturnedTree == result = tostring(root) /\ idx = Len(translation_items)

\* C5: whatever the document and the response, every element of the input
\* tree keeps its tag, its attributes, its tail and its children in their
\* order; the only additions are single target children, appended to
\* trans-units that had no target; only element text differs otherwise.
C5_StructurePreserved ==
    (root # << >>) =>
        LET orig == Original
            n == Len(orig)
        IN  /\ Len(root) >= n
            /\ \A id \in 1..n :
                  /\ root[id].tag = orig[id].tag
                  /\ root[id].attrib = orig[id].attrib
                  /\ root[id].tail = orig[id].tail
                  /\ IsPrefix(orig[id].children, root[id].children)
                  /\ Len(root[id].children) <= Len(orig[id].children) + 1
                  /\ Len(root[id].children) > Len(orig[id].children) =>
                        /\ EndsWith(orig[id].tag, TransUnitSuffix)
                        /\ ~HasTargetChild(orig, id)
                        /\ root[id].children[Len(root[id].children)] > n
            /\ \A id \in (n + 1)..Len(root) :
                  /\ EndsWith(root[id].tag, TargetSuffix)
                  /\ root[id].children = << >>
                  /\ Cardinality({ parent \in 1..n :
                                     \E j \in 1..Len(root[parent].children) :
                                         root[parent].children[j] = id }) = 1

\* an echoed response has been written back: targets were added and an
\* existing target was overwritten
C5_Witness ==
    /\ pc = "done"
    /\ translated_combined = combined_text
    /\ Len(root) > Len(Original)
    /\ \E id \in 1..Len(Original) : root[id].text # Original[id].text
    /\ result = tostring(root)

\* C6: with fewer chunks than segments the call does not raise, the chunk
\* list is padded to the number of segments with the last chunk, and each
\* segment past the last real chunk is written with that chunk (trimmed).
C6_FewerChunksPadded ==
    ResponseParsed =>
        LET raw == RawParts
            last == raw[Len(raw)]
        IN  Len(raw) < Len(translation_items) =>
              /\ Len(cleaned_parts) = Len(translation_items)
              /\ \A k \in 1..Len(raw) : cleaned_parts[k] = raw[k]
              /\ \A k \in (Len(raw) + 1)..Len(cleaned_parts) : cleaned_parts[k] = last
              /\ (idx > Len(raw) /\ Strip(last) # << >>) =>
                    AnchorText(root, translation_items[idx], Len(Original)) = Strip(last)
              /\ pc = "done" => ReturnedTree

C6_Witness ==
    /\ pc = "done"
    /\ Len(translation_items) = 3
    /\ Len(RawParts) = 2
    /\ RawParts[2] = Monde
    /\ AnchorText(root, translation_items[3], Len(Original)) = Monde
    /\ AnchorText(root, translation_items[1], Len(Original)) = Bonjour

\* C7: with more chunks than segments (N), the chunks after the N-th are
\* dropped, segment k is written with chunk k for every k up to N, every
\* segment is visited, and no text in the tree comes from a dropped chunk.
C7_ExcessChunksDiscarded ==
    ResponseParsed =>
        LET raw == RawParts
            orig == Original
            kept == { Strip(raw[k]) : k \in 1..Len(translation_items) }
        IN  Len(raw) > Len(translation_items) =>
              /\ cleaned_parts = SubSeq(raw, 1, Len(translation_items))
              /\ (idx >= 1 /\ Strip(raw[idx]) # << >>) =>
                    AnchorText(root, translation_items[idx], Len(orig)) = Strip(raw[idx])
              /\ \A id \in 1..Len(root) :
                    \/ id <= Len(orig) /\ root[id].text = orig[id].text
                    \/ root[id].text \in kept
              /\ pc = "done" => ReturnedTree

C7_Witness ==
    /\ pc = "done"
    /\ Len(translation_items) = 2
    /\ Len(RawParts) = 3
    /\ RawParts[3] = Salut
    /\ AnchorText(root, translation_items[1], Len(Original)) = Bonjour
    /\ AnchorText(root, translation_items[2], Len(Original)) = Monde

\* the update loop is about to handle an item whose chunk is empty once trimmed
EmptyChunkNext ==
    /\ pc = "update"
    /\ idx < Len(translation_items)
    /\ idx < Len(cleaned_parts)
    /\ Strip(cleaned_parts[idx + 1]) = << >>

\* C8: the iteration of the update loop for a segment whose chunk is empty
\* after trimming leaves the whole tree as it was: no target overwritten,
\* none created, no element text changed.
C8_EmptyChunkNoWrite == [][EmptyChunkNext => root' = root]_vars

\* a unit without target whose chunk was empty has gained no child, while
\* another item was written
C8_Witness ==
    /\ pc = "done"
    /\ calls = 1
    /\ ~ServiceFailed
    /\ ReturnedTree
    /\ root # Original
    /\ \E k \in 1..Len(cleaned_parts) :
          /\ Strip(cleaned_parts[k]) = << >>
          /\ translation_items[k].element_type = TypeTransUnit
          /\ translation_items[k].target = None
          /\ root[translation_items[k].element].children =
                 Original[translation_items[k].element].children

NearVariants ==
    << << "\n", "-", " ", "-", " ", "-", "I", "T", "E", "M", "-", " ", "-", " ", "-", "\n" >>,
       << "\n", "-", "-", "I", "T", "E", "M", "-", "-", "\n" >>,
       << "\n", "-", "-", "-", "\n" >>,
       << "\n", "-", " ", "-", " ", "-", "\n" >>,
       << "\n", "-", "-", "\n" >> >>

BlankLine == << "\n", "\n" >>

Newline == << "\n" >>

PatternPriority == << ItemSeparator >> \o NearVariants \o << BlankLine, Newline >>

\* C9: the text is split at the request's separator when it occurs in the
\* response, otherwise at the first pattern that occurs among the near
\* variants, the blank line and the newline, in this order; when none
\* occurs the whole response is the only chunk.
C9_DelimiterPriority ==
    ResponseParsed =>
        LET present == { j \in 1..Len(PatternPriority) :
                           Contains(translated_combined, PatternPriority[j]) }
        IN  IF present = {}
            THEN translated_parts = << translated_combined >>
            ELSE /\ split_pattern =
                        PatternPriority[CHOOSE j \in present : \A q \in present : j <= q]
                 /\ translated_parts = Split(translated_combined, split_pattern)
                 /\ Len(translated_parts) >= 2

\* a near variant was chosen though blank line and newline occur too
C9_Witness ==
    /\ ResponseParsed
    /\ split_pattern = NearVariants[3]
    /\ Contains(translated_combined, BlankLine)
    /\ ~Contains(translated_combined, ItemSeparator)
    /\ Len(translated_parts) = 2

\* C10: a call posts at most one request: one when the document parses and
\* has an item with text, none otherwise; neither a failed call nor a chunk
\* count that differs from the item count leads to a second request.
C10_AtMostOneRequest ==
    /\ calls <= 1
    /\ pc = "done" =>
          calls = IF xliff_content \in WellFormedDocuments /\ Len(translation_items) > 0
                  THEN 1 ELSE 0

C10_Witness ==
    /\ pc = "done"
    /\ calls = 1
    /\ ~ServiceFailed
    /\ Len(RawParts) # Len(translation_items)

\* element e of the tree passes the test of discovery pass n (1 to 4)
InPass(elems, n, e) ==
    CASE n = 1 -> EndsWith(elems[e].tag, TransUnitSuffix)
      [] n = 2 -> \E x \in HeaderKeywords : Contains(Lower(elems[e].tag), x)
      [] n = 3 -> << "translatable", Yes >> \in elems[e].attrib
      [] OTHER -> \E a \in elems[e].attrib :
                     /\ a[1] = "resname"
                     /\ \E x \in ResnameKeywords : Contains(Lower(a[2]), x)

\* the first pass whose test e passes, 0 when it passes none
FirstPass(elems, e) ==
    LET passes == { n \in 1..4 : InPass(elems, n, e) }
    IN  IF passes = {} THEN 0 ELSE CHOOSE n \in passes : \A m \in passes : n <= m

\* the discovery has just run (all_elements is not assigned again)
Discovered == pc = "extract"

\* C11: discovery runs the four passes over the elements below the root and
\* de-duplicates by element identity: every element that passes the test of
\* at least one pass is in the list exactly once, nothing else is, and the
\* list is ordered by first matching pass (1 before 2 before 3 before 4) and
\* by document order inside a pass (an element's index is its place in
\* document order).
C11_DiscoveryOrder ==
    Discovered =>
        LET orig == Original
            pass == [e \in 2..Len(orig) |-> FirstPass(orig, e)]
        IN  /\ \A e \in 2..Len(orig) :
                  pass[e] > 0 =>
                      Cardinality({ p \in 1..Len(all_elements) : all_elements[p] = e }) = 1
            /\ \A p \in 1..Len(all_elements) :
                  all_elements[p] \in 2..Len(orig) /\ pass[all_elements[p]] > 0
            /\ \A p, q \in 1..Len(all_elements) :
                  p < q =>
                      \/ pass[all_elements[p]] < pass[all_elements[q]]
                      \/ /\ pass[all_elements[p]] = pass[all_elements[q]]
                         /\ all_elements[p] < all_elements[q]

\* an element matched by two passes was listed, and the list order differs
\* from document order
C11_Witness ==
    /\ Discovered
    /\ Len(all_elements) >= 3
    /\ \E p \in 1..Len(all_elements) :
          Cardinality({ n \in 1..4 : InPass(root, n, all_elements[p]) }) >= 2
    /\ \E p, q \in 1..Len(all_elements) : p < q /\ all_elements[p] > all_elements[q]
    /\ \E p \in 1..Len(all_elements) : FirstPass(root, all_elements[p]) = 2
    /\ \E p \in 1..Len(all_elements) : FirstPass(root, all_elements[p]) = 3

\* the text the extraction takes for element e, trimmed: the whole text of
\* the last child whose tag ends with 'source' for a trans-unit (nothing when
\* it has none), the element's own whole text otherwise
SourceTextOf(elems, e) ==
    IF EndsWith(elems[e].tag, TransUnitSuffix)
    THEN LET kids == elems[e].children
             srcs == { j \in 1..Len(kids) : EndsWith(elems[kids[j]].tag, SourceSuffix) }
         IN  IF srcs = {} THEN << >>
             ELSE Strip(IterText(elems, kids[CHOOSE j \in srcs : \A q \in srcs : q <= j]))
    ELSE Strip(IterText(elems, e))

\* the extraction has run on a document that parsed
Extracted == pc \in { "request", "await", "split", "update", "serialize", "done" } /\ root # << >>

ExistingTarget(elems, unit) ==
    LET kids == elems[unit].children
        ts == { j \in 1..Len(kids) : EndsWith(elems[kids[j]].tag, TargetSuffix) }
    IN  IF ts = {} THEN None ELSE kids[CHOOSE j \in ts : \A q \in ts : q <= j]

\* the update loop is about to handle a trans-unit with a chunk that is not
\* empty once trimmed
UnitChunkNext ==
    /\ pc = "update"
    /\ idx < Len(translation_items)
    /\ idx < Len(cleaned_parts)
    /\ Strip(cleaned_parts[idx + 1]) # << >>
    /\ EndsWith(root[translation_items[idx + 1].element].tag, TransUnitSuffix)

\* C13: the iteration of the update loop for a trans-unit that has a target
\* child and a chunk that is not empty changes one thing in the tree: the
\* text of that target becomes the chunk (trimmed), whatever its text and
\* language were; no element is added and no attribute changes.
C13_ExistingTargetOverwritten ==
    [][(UnitChunkNext /\ ExistingTarget(root, translation_items[idx + 1].element) # None) =>
          root' = [root EXCEPT
                     ![ExistingTarget(root, translation_items[idx + 1].element)].text =
                         Strip(cleaned_parts[idx + 1])]]_vars

\* a target that held "Old" in German now holds the chunk, still marked as
\* German, and its unit has the two children it had
C13_Witness ==
    /\ pc = "done"
    /\ calls = 1
    /\ ~ServiceFailed
    /\ ReturnedTree
    /\ \E k \in 1..Len(translation_items) :
          LET unit == translation_items[k].element
              target == ExistingTarget(Original, unit)
          IN  /\ EndsWith(root[unit].tag, TransUnitSuffix)
              /\ target # None
              /\ Original[target].text = Old
              /\ Original[target].attrib = { << XmlLang, German >> }
              /\ root[target].text = Strip(cleaned_parts[k])
              /\ root[target].text = Bonjour
              /\ root[target].attrib = { << XmlLang, German >> }
              /\ Len(root[unit].children) = 2
              /\ Len(root) = Len(Original)

\* the child of unit the extraction takes as its source: the last one whose
\* tag ends with 'source'
SourceChild(elems, unit) ==
    LET kids == elems[unit].children
        ss == { j \in 1..Len(kids) : EndsWith(elems[kids[j]].tag, SourceSuffix) }
    IN  kids[CHOOSE j \in ss : \A q \in ss : q <= j]

\* the namespace part of a tag: up to its last "}", nothing without one
NamespacePart(tag) == SubSeq(tag, 1, LastIndexOf(tag, "}"))

\* the tree once the trans-unit about to be handled has gained, as its last
\* child, one new element with the given attributes: a target in the
\* namespace of the unit's source child that holds the chunk (trimmed)
WithNewTarget(attrib) ==
    LET unit == translation_items[idx + 1].element
    IN  Append([root EXCEPT ![unit].children = Append(@, Len(root) + 1)],
               [tag |-> NamespacePart(root[SourceChild(root, unit)].tag) \o << "t", "a", "r", "g", "e", "t" >>,
                attrib |-> attrib,
                text |-> Strip(cleaned_parts[idx + 1]),
                tail |-> << >>,
                children |-> << >>])

\* the update loop is about to handle a trans-unit without target child and
\* with a chunk that is not empty
NewTargetNext ==
    UnitChunkNext /\ ExistingTarget(root, translation_items[idx + 1].element) = None

\* C14, as claimed: the iteration for a trans-unit without target and with a
\* chunk that is not empty adds exactly one target child, in the namespace of
\* the source child, with the chunk as text and with xml:lang set to the
\* requested target language.
C14_NewTargetHasLanguage ==
    [][NewTargetNext => root' = WithNewTarget({ << XmlLang, target_language >> })]_vars

\* C14, amended: the iteration adds exactly one target child, in the
\* namespace of the source child, with the chunk as text; the new target
\* carries xml:lang, set to the requested target language, when the source
\* child carries an xml:lang attribute, and no attribute when it does not.
C14_NewTargetCreated ==
    [][NewTargetNext =>
          root' = WithNewTarget(
                      IF \E a \in root[SourceChild(root, translation_items[idx + 1].element)].attrib :
                             a[1] = XmlLang
                      THEN { << XmlLang, target_language >> }
                      ELSE {})]_vars

\* two targets were created: one in the namespace of its source and marked
\* with the target language, one without namespace and without attribute
C14_Witness ==
    /\ pc = "done"
    /\ calls = 1
    /\ ~ServiceFailed
    /\ ReturnedTree
    /\ Len(root) = Len(Original) + 2
    /\ \E id \in (Len(Original) + 1)..Len(root) :
          /\ root[id].tag = Namespace \o << "t", "a", "r", "g", "e", "t" >>
          /\ root[id].attrib = { << XmlLang, French >> }
          /\ root[id].text \in { Bonjour, Monde }
    /\ \E id \in (Len(Original) + 1)..Len(root) :
          /\ root[id].tag = << "t", "a", "r", "g", "e", "t" >>
          /\ root[id].attrib = {}
          /\ root[id].text \in { Bonjour, Monde }

\* the element an item's chunk goes into: the target found for a trans-unit,
\* the trans-unit itself when a target is created for it, or the element
WrittenElement(item) ==
    IF item.element_type = TypeTransUnit /\ item.target # None
    THEN item.target
    ELSE item.element

\* C15: for N items and a response that was received, the update loop has N
\* chunks for N items, visits each item once in order, and no two of the
\* items it has written wrote into the same element.
C15_OneWritePerElement ==
    ResponseParsed =>
        LET written == { k \in 1..idx : Strip(cleaned_parts[k]) # << >> }
        IN  /\ Len(cleaned_parts) = Len(translation_items)
            /\ idx <= Len(translation_items)
            /\ pc = "done" => idx = Len(translation_items)
            /\ \A j, k \in written :
                  j # k => WrittenElement(translation_items[j])
                               # WrittenElement(translation_items[k])

\* the request has been built and posted (combined_text is not assigned again)
RequestBuilt == pc = "await"

\* C18: the request is the lines of the discovered elements that have source
\* text, in discovery order, joined by "\n---ITEM---\n"; the line of the
\* element at place p (from 0) of the discovery list is "[ITEM-p][KIND] "
\* followed by its source text, KIND being TRANS-UNIT or DIRECT; so the ids
\* are distinct and increase along the request, with gaps where elements
\* without text were dropped.
C18_RequestLines ==
    RequestBuilt =>
        LET orig == Original
            kept == SelectSeq([p \in 1..Len(all_elements) |-> p],
                              LAMBDA p : SourceTextOf(orig, all_elements[p]) # << >>)
            lines == Split(combined_text, << "\n", "-", "-", "-", "I", "T", "E", "M", "-", "-", "-", "\n" >>)
            Kind(e) == IF EndsWith(orig[e].tag, TransUnitSuffix)
                       THEN << "T", "R", "A", "N", "S", "-", "U", "N", "I", "T" >>
                       ELSE << "D", "I", "R", "E", "C", "T" >>
        IN  /\ Len(lines) = Len(kept)
            /\ \A k \in 1..Len(kept) :
                  lines[k] = << "[", "I", "T", "E", "M", "-" >> \o IntToStr(kept[k] - 1) \o << "]", "[" >>
                                 \o Kind(all_elements[kept[k]]) \o << "]", " " >>
                                 \o SourceTextOf(orig, all_elements[kept[k]])
            /\ \A j, k \in 1..Len(translation_items) :
                  j < k => translation_items[j].i < translation_items[k].i

\* a request of two lines whose ids are 1 and 2: the element at place 0 had
\* no text
C18_Witness ==
    /\ pc = "await"
    /\ Len(translation_items) = 2
    /\ Len(all_elements) = 3
    /\ translation_items[1].i = 1
    /\ combined_text = << "[", "I", "T", "E", "M", "-", "1", "]", "[", "T", "R", "A", "N", "S", "-", "U", "N", "I", "T", "]", " ", "W", "o", "r", "l", "d", "\n", "-", "-", "-", "I", "T", "E", "M", "-", "-", "-", "\n", "[", "I", "T", "E", "M", "-", "2", "]", "[", "D", "I", "R", "E", "C", "T", "]", " " >>
                           \o translation_items[2].text

\* C19: parts go to items by position alone: the k-th cleaned part is the
\* k-th part of the split response, cleaned, whatever id its marker carried,
\* and it is what the update loop writes for the k-th item; a response that
\* gives the items in another order is written as it comes and the call
\* returns the tree.
C19_PositionalAttribution ==
    ResponseParsed =>
        /\ \A k \in 1..Len(translation_items) :
              k <= Len(translated_parts) => cleaned_parts[k] = CleanPart(translated_parts[k])
        /\ (idx >= 1 /\ Strip(cleaned_parts[idx]) # << >>) =>
              AnchorText(root, translation_items[idx], Len(Original))
                  = Strip(cleaned_parts[idx])
        /\ pc = "done" => ReturnedTree

\* the response answered item 1 first and item 0 second: the text marked for
\* item 1 is in the element of item 0 and the other way round
C19_Witness ==
    /\ pc = "done"
    /\ calls = 1
    /\ translated_combined =
           << "[", "I", "T", "E", "M", "-", "1", "]", "[", "D", "I", "R", "E", "C", "T", "]", " ", "M", "o", "n", "d", "e", "\n", "-", "-", "-", "I", "T", "E", "M", "-", "-", "-", "\n", "[", "I", "T", "E", "M", "-", "0", "]", "[", "D", "I", "R", "E", "C", "T", "]", " ", "B", "o", "n", "j", "o", "u", "r" >>
    /\ Len(translation_items) = 2
    /\ translation_items[1].i = 0
    /\ translation_items[2].i = 1
    /\ \A k \in 1..2 : translation_items[k].element_type = TypeDirect
    /\ root[translation_items[1].element].text = Monde
    /\ root[translation_items[2].element].text = Bonjour
    /\ ReturnedTree

\* C20: whatever the document and the response, every child of a trans-unit
\* whose tag ends with 'source' has the text it had in the input.
C20_SourceTextKept ==
    (root # << >>) =>
        LET orig == Original
        IN  \A unit \in 2..Len(orig) :
                EndsWith(orig[unit].tag, TransUnitSuffix) =>
                    \A j \in 1..Len(orig[unit].children) :
                        EndsWith(orig[orig[unit].children[j]].tag, SourceSuffix) =>
                            root[orig[unit].children[j]].text
                                = orig[orig[unit].children[j]].text

\* C16: a call keeps nothing from one document to the next and does not
\* touch the connector: no step of a call changes access_token,
\* token_expiry_time or next_url, and what a call returns is a function of
\* the document, the language tags and the reply of the service alone,
\* whatever the fields hold and whatever was translated before.
C16_NoConnectorState ==
    [][/\ (pc # "done" => connector' = connector)
       /\ (pc' = "done" =>
              result' = translate_xliff_with_anthropic(xliff_content', source_language',
                                                       target_language', reply'))]_vars

\* a call on a connector that holds a token and a cursor has returned the
\* translated tree, and the fields are as they were set
C16_Witness ==
    /\ pc = "done"
    /\ calls = 1
    /\ ~ServiceFailed
    /\ result = tostring(root)
    /\ result # xliff_content
    /\ access_token = Token
    /\ token_expiry_time > 0
    /\ next_url = << "/", "e", "v", "e", "n", "t", "s", "-", "f", "a", "s", "t", "/", "j", "?", "s", "i", "n", "c", "e", "=", "a" >>

\* C17: when a handler returns after it has completed the translation of
\* its asset (step 5), the request that marks the task as complete (step 6)
\* has been sent.
C17_TaskMarkedComplete ==
    (at = "return" /\ logged = "asset_completed") =>
        (http.endpoint = "task/complete" /\ http.name = event.taskId)

\* the extraction has just run (translation_items is not assigned again)
ItemsBuilt == pc \in { "request", "serialize" } /\ root # << >>

\* the elements whose text is part of the source_text of an item: the
\* item's source and everything below it
CapturedBy(elems, item) ==
    { item.source } \cup { Descendants(elems, item.source)[q] :
                             q \in 1..Len(Descendants(elems, item.source)) }

\* C21: no element captured as a direct segment lies below the source of
\* another segment (a captured direct element, or the source child of a
\* captured trans-unit), so that no text node is part of the source_text of
\* two segments.
C21_TextCapturedOnce ==
    ItemsBuilt =>
        \A j, k \in 1..Len(translation_items) :
            (j # k /\ translation_items[k].element_type = TypeDirect) =>
                translation_items[k].element
                    \notin (CapturedBy(root, translation_items[j])
                                \ { translation_items[j].source })

\* translate_xliff_with_anthropic takes its except clause for this document
\* and this reply of the service: the document does not parse, or it has
\* items and the call raises
FellBack(content, r) ==
    LET parsed == fromstring(content)
    IN  \/ ~parsed.ok
        \/ /\ Len(Extract(parsed.elems, Discover(parsed.elems))) > 0
           /\ translate_with_anthropic(<< >>, source_language, target_language, r).raised

\* C22: when the translation falls back to the content it was given, the
\* handler goes on as after a translation: the call returns the content
\* unchanged and the handler moves to the upload; the upload request carries
\* that content; only a failed request ends the handler early; and the
\* request that completes the asset reports status TRANSLATED with the URL of
\* the uploaded content.
C22_FallbackUploadedAsTranslated ==
    [][/\ (at = "translate" /\ FellBack(xliff_content, reply')) =>
              /\ result' = xliff_content
              /\ at' = "upload"
              /\ logged' = "xliff_translated"
       /\ (at = "upload" /\ FellBack(xliff_content, reply)) =>
              /\ http'.endpoint \in { "token", "uploadToStorage" }
              /\ http'.endpoint = "uploadToStorage" => http'.content = xliff_content
              /\ \/ at' = "update_state" /\ logged' = "content_uploaded"
                 \/ at' = "return" /\ logged' = ErrorLog
       /\ (at = "update_state" /\ FellBack(xliff_content, reply)) =>
              \/ at' = "complete"
              \/ at' = "return" /\ logged' = ErrorLog
       /\ (at = "complete" /\ FellBack(xliff_content, reply)) =>
              /\ http'.endpoint \in { "token", "locale/complete" }
              /\ http'.endpoint = "locale/complete" =>
                     /\ http'.status = "TRANSLATED"
                     /\ http'.name = AssetName
                     /\ http'.url = translated_url
              /\ \/ at' \in { "asset", "return" } /\ logged' = "asset_completed"
                 \/ at' = "return" /\ logged' = ErrorLog]_vars

\* a document that does not parse has been uploaded as it was and its asset
\* reported as TRANSLATED
C22_Witness ==
    /\ logged = "asset_completed"
    /\ http.endpoint = "locale/complete"
    /\ http.status = "TRANSLATED"
    /\ http.url = UploadedUrl
    /\ xliff_content # << >>
    /\ ~fromstring(xliff_content).ok
    /\ result = xliff_content

\* one of the comma-separated entries of the Link header has rel="next"
HasNextEntry(link_header) ==
    /\ link_header # NoText
    /\ \E k \in 1..Len(Split(link_header, << "," >>)) :
          Contains(Split(link_header, << "," >>)[k], RelNext)

\* the journaling request was sent and answered with a status that is
\* neither 204 nor an error
PageReceived(request) ==
    /\ request.endpoint = "journal"
    /\ request.answer.transport = "ok"
    /\ request.answer.status_code # 204
    /\ ~RaisesForStatus(request.answer.status_code)

\* C23: next_url changes only in the step of poll_for_events that receives a
\* page whose Link header has an entry with rel="next"; when the request was
\* not sent (no token), failed, was answered 204 or with a page without such
\* an entry, and in every step of the dispatch and of the handlers, next_url
\* stays what it was.  The request itself is for the cursor as it stood.
C23_CursorFrame ==
    [][/\ at # "poll" => next_url' = next_url
       /\ at = "poll" =>
              /\ http'.endpoint = "journal" => http'.url = PollUrl(next_url)
              /\ next_url' # next_url =>
                     (PageReceived(http') /\ HasNextEntry(http'.answer.link))
              /\ ~(PageReceived(http') /\ HasNextEntry(http'.answer.link)) =>
                     next_url' = next_url]_vars

\* a connector that holds a cursor has asked for the page at that cursor,
\* has received a page with an event and a Link header without next entry,
\* and holds the same cursor
C23_Witness ==
    /\ at = "dispatch"
    /\ Len(events) > 0
    /\ PageReceived(http)
    /\ http.answer.link # NoText
    /\ ~HasNextEntry(http.answer.link)
    /\ next_url # NoText
    /\ http.url = PollUrl(next_url)

====
